---- MODULE Spec2Model ----
(***************************************************************************)
(* Waypoint engine of gather-waypoint: the Convex tables (sessions,        *)
(* participants, presence, routes) and the mutations, actions and queries  *)
(* that read and write them.  Every mutation is one atomic transaction, so *)
(* it is one action; the computeRoute action is two steps (the external    *)
(* routing call is outstanding, then its result is applied or dropped).    *)
(* For an operation op, opResult is what the handler returns or throws in  *)
(* the current state and op is its effect on the tables; a handler that    *)
(* throws leaves the tables as they were.  ret holds the response of the   *)
(* last operation when a specification records it.                         *)
(*                                                                         *)
(* Tables are sequences of rows in creation order, which is the order in   *)
(* which an index scan with equal keys returns them (.first(), .collect()).*)
(* An optional field is a sequence: <<>> when absent, <<v>> when present.  *)
(* Times are milliseconds, as Date.now().                                  *)
(*                                                                         *)
(* Two programs around the tables are modelled with them: hook is the      *)
(* state of one mounted useRouteRecomputation (its two refs and the        *)
(* computeRoute call it awaits), and geo is the geocoding proxy (the       *)
(* timestamp of rateLimitedFetch, the requests asleep in it, the requests  *)
(* it has sent upstream, and the response cache).  device is the device    *)
(* identity service of one phone: its in-memory copy of the identifier,    *)
(* the item in AsyncStorage, and the getDeviceId calls that are awaiting.  *)
(*                                                                         *)
(* Coordinates are integers counting great-circle metres of arc from       *)
(* (0,0): one unit is 180/(pi*6371000) degrees.  The model uses positions  *)
(* within 1 km of (0,0), where the haversine formula agrees with the       *)
(* planar distance to better than a micrometre, and only pairs of          *)
(* positions whose distance is a whole number of metres.                   *)
(***************************************************************************)
EXTENDS Integers, Sequences, FiniteSets, TLC

VARIABLES sessions, participants, presence, routes, nextPid, inflight, now, ret, hook, geo, device

vars == <<sessions, participants, presence, routes, nextPid, inflight, now, ret, hook, geo, device>>
tables == <<sessions, participants, presence, routes, nextPid>>

(* ---------------------------------------------------------------- bounds *)
MaxSessions == 2
MaxParticipants == 2
MaxInflight == 2
MaxTicks == 2
MaxSweeps == 1

(* ------------------------------------------------------------- constants *)
MAX_SPEED_MPS == 50
MAX_ACCURACY_METERS == 100
STALE_THRESHOLD_MS == 60000
DELAY_EXPIRY_MS == 15 * 60 * 1000
SESSION_TTL_MS == 4 * 60 * 60 * 1000
ROUTE_STALE_MS == 5 * 60 * 1000
ROUTE_ORIGIN_DRIFT_M == 500
MAX_CODE_ATTEMPTS == 10
COLORS == <<"#34D399", "#60A5FA", "#F472B6", "#FBBF24",
            "#A78BFA", "#FB923C", "#14B8A6", "#EC4899">>

(* --------------------------------------------------------------- helpers *)
Abs(x) == IF x < 0 THEN -x ELSE x

\* .first() of an index scan whose matching rows sit at the indices m: the
\* index of the oldest matching row, 0 for null
First(m) == IF m = {} THEN 0 ELSE CHOOSE i \in m : \A j \in m : i <= j

\* ctx.db.delete of the rows at the indices in del
RECURSIVE DeleteRows(_, _)
DeleteRows(table, del) ==
    IF table = <<>> THEN <<>>
    ELSE LET rest == DeleteRows(Tail(table), {i - 1 : i \in del \ {1}})
         IN IF 1 \in del THEN rest ELSE <<Head(table)>> \o rest

\* ctx.db.patch of row i: fields of p overwrite, a field patched to undefined
\* (here <<>>) is removed, which for an optional field is the same thing
Patch(table, i, p) ==
    [table EXCEPT ![i] = [f \in DOMAIN @ |-> IF f \in DOMAIN p THEN p[f] ELSE @[f]]]

Result(kind, reason, value) == [kind |-> kind, reason |-> reason, value |-> value]
Ok(value) == Result("ok", "", value)
Error(reason) == Result("error", reason, <<>>)
\* a rejection that is thrown instead of returned
RejectedByThrowing(reason) == Result("error", reason, <<>>)

\* return { accepted: false, reason }
Rejected(reason) == Result("rejected", reason, <<>>)
Failed(reason) == Result("failed", reason, <<>>)

\* great-circle distance in metres between two positions of the grid
haversineDistance(lat1, lng1, lat2, lng2) ==
    LET dLat == Abs(lat2 - lat1)
        dLng == Abs(lng2 - lng1)
    IN CHOOSE d \in (IF dLat > dLng THEN dLat ELSE dLng)..(dLat + dLng) :
          d * d = dLat * dLat + dLng * dLng

sessionRow(sessionId) ==
    IF sessionId \in 1..Len(sessions) THEN <<sessions[sessionId]>> ELSE <<>>

\* a lookup that never finds the device
findParticipantNone(deviceId, sessionId) == 0

findParticipant(deviceId, sessionId) ==
    First({i \in 1..Len(participants) :
             /\ participants[i].deviceId = deviceId
             /\ participants[i].sessionId = sessionId})

\* a lookup that finds no row
findPresenceNone(participantId) == 0

findPresence(participantId) ==
    First({i \in 1..Len(presence) : presence[i].participantId = participantId})

findRoute(participantId) ==
    First({i \in 1..Len(routes) : routes[i].participantId = participantId})

sessionParticipants(sessionId) ==
    {i \in 1..Len(participants) : participants[i].sessionId = sessionId}

sessionRoutes(sessionId) ==
    {i \in 1..Len(routes) : routes[i].sessionId = sessionId}

initialPresence(participantId, sessionId) ==
    [participantId |-> participantId, sessionId |-> sessionId,
     latitude |-> 0, longitude |-> 0,
     heading |-> <<>>, speed |-> <<>>, accuracy |-> <<>>,
     updatedAt |-> now, delayStatus |-> <<>>]

(* ------------------------------------------------------------- sessions *)
Init ==
    /\ sessions = <<>>
    /\ participants = <<>>
    /\ presence = <<>>
    /\ routes = <<>>
    /\ nextPid = 1
    /\ inflight = {}
    /\ now = 0
    /\ ret = [op |-> "", args |-> <<>>, at |-> 0, res |-> Ok(<<>>)]
    /\ hook = [isComputing |-> FALSE, lastComputeRef |-> <<>>, call |-> <<>>]
    /\ geo = [lastNominatimRequest |-> 0, sleeping |-> <<>>, sent |-> <<>>,
              cache |-> {}]
    /\ device = [cachedDeviceId |-> <<>>, storage |-> <<>>, calls |-> <<>>,
                 started |-> 0, generated |-> 0]

\* generateCode is drawn again while the code is taken, at most
\* MAX_CODE_ATTEMPTS more times; draws are the codes drawn, in order
chosenCode(draws) ==
    LET taken(c) == \E i \in 1..Len(sessions) : sessions[i].code = c
        free == {k \in 1..Len(draws) : ~taken(draws[k])}
    IN IF free = {} THEN draws[Len(draws)]
       ELSE draws[CHOOSE k \in free : \A j \in free : k <= j]

createSessionResult(draws) ==
    Ok([sessionId |-> Len(sessions) + 1, code |-> chosenCode(draws),
        participantId |-> nextPid])

createSession(deviceId, displayName, draws) ==
    LET r == createSessionResult(draws).value
    IN /\ Len(sessions) < MaxSessions
       /\ nextPid <= MaxParticipants
       /\ sessions' = Append(sessions,
              [_id |-> r.sessionId, code |-> r.code, destination |-> <<>>,
               status |-> "active", createdAt |-> now,
               expiresAt |-> now + SESSION_TTL_MS])
       /\ participants' = Append(participants,
              [_id |-> r.participantId, sessionId |-> r.sessionId,
               deviceId |-> deviceId, displayName |-> displayName,
               color |-> COLORS[1], joinedAt |-> now, lastSeenAt |-> now])
       /\ presence' = Append(presence, initialPresence(r.participantId, r.sessionId))
       /\ nextPid' = nextPid + 1
       /\ UNCHANGED <<routes, inflight, now>>

toUpperCase(code) ==
    IF code = "aaaaaa" THEN "AAAAAA"
    ELSE IF code = "bbbbbb" THEN "BBBBBB"
    ELSE code

findSessionByCode(code) ==
    First({i \in 1..Len(sessions) : sessions[i].code = toUpperCase(code)})

\* a session that has expired once its expiresAt is reached
joinSessionResultInclusive(code, deviceId) ==
    LET s == findSessionByCode(code)
    IN IF s = 0 THEN Error("Session not found")
       ELSE IF sessions[s].status # "active" THEN Error("Session has ended")
       ELSE IF now >= sessions[s].expiresAt THEN Error("Session has expired")
       ELSE LET existing == findParticipant(deviceId, s)
            IN IF existing # 0
               THEN Ok([sessionId |-> s,
                        participantId |-> participants[existing]._id,
                        alreadyJoined |-> TRUE])
               ELSE Ok([sessionId |-> s, participantId |-> nextPid,
                        alreadyJoined |-> FALSE])

joinSessionResult(code, deviceId) ==
    LET s == findSessionByCode(code)
    IN IF s = 0 THEN Error("Session not found")
       ELSE IF sessions[s].status # "active" THEN Error("Session has ended")
       ELSE IF now > sessions[s].expiresAt THEN Error("Session has expired")
       ELSE LET existing == findParticipant(deviceId, s)
            IN IF existing # 0
               THEN Ok([sessionId |-> s,
                        participantId |-> participants[existing]._id,
                        alreadyJoined |-> TRUE])
               ELSE Ok([sessionId |-> s, participantId |-> nextPid,
                        alreadyJoined |-> FALSE])

\* joinSession while fewer than cap participant rows have ever been made
joinSessionUpTo(code, deviceId, displayName, cap) ==
    LET res == joinSessionResult(code, deviceId)
    IN IF res.kind # "ok" \/ res.value.alreadyJoined
       THEN UNCHANGED <<tables, inflight, now>>
       ELSE LET s == res.value.sessionId
            IN /\ nextPid <= cap
               /\ participants' = Append(participants,
                      [_id |-> nextPid, sessionId |-> s,
                       deviceId |-> deviceId, displayName |-> displayName,
                       color |-> COLORS[(Cardinality(sessionParticipants(s))
                                          % Len(COLORS)) + 1],
                       joinedAt |-> now, lastSeenAt |-> now])
               /\ presence' = Append(presence, initialPresence(nextPid, s))
               /\ nextPid' = nextPid + 1
               /\ UNCHANGED <<sessions, routes, inflight, now>>

joinSession(code, deviceId, displayName) ==
    joinSessionUpTo(code, deviceId, displayName, MaxParticipants)

leaveSessionResult(sessionId, deviceId) ==
    IF findParticipant(deviceId, sessionId) = 0
    THEN Failed("Not in session")
    ELSE Ok(<<>>)

\* a leave that ends the session whoever remains
leaveSessionEndingAlways(sessionId, deviceId) ==
    LET p == findParticipant(deviceId, sessionId)
    IN IF p = 0 THEN UNCHANGED <<tables, inflight, now>>
       ELSE LET pid == participants[p]._id
                pr == findPresence(pid)
                ro == findRoute(pid)
            IN /\ presence' = DeleteRows(presence, {pr} \ {0})
               /\ routes' = DeleteRows(routes, {ro} \ {0})
               /\ participants' = DeleteRows(participants, {p})
               /\ sessions' = Patch(sessions, sessionId, [status |-> "ended"])
               /\ UNCHANGED <<nextPid, inflight, now>>

leaveSession(sessionId, deviceId) ==
    LET p == findParticipant(deviceId, sessionId)
    IN IF p = 0 THEN UNCHANGED <<tables, inflight, now>>
       ELSE LET pid == participants[p]._id
                pr == findPresence(pid)
                ro == findRoute(pid)
                left == DeleteRows(participants, {p})
            IN /\ presence' = DeleteRows(presence, {pr} \ {0})
               /\ routes' = DeleteRows(routes, {ro} \ {0})
               /\ participants' = left
               /\ sessions' = IF First({i \in 1..Len(left) : left[i].sessionId = sessionId}) = 0
                              THEN Patch(sessions, sessionId, [status |-> "ended"])
                              ELSE sessions
               /\ UNCHANGED <<nextPid, inflight, now>>

endSessionResult(sessionId) ==
    IF sessionRow(sessionId) = <<>> THEN Error("Session not found") ELSE Ok(<<>>)

endSession(sessionId) ==
    IF endSessionResult(sessionId).kind # "ok"
    THEN UNCHANGED <<tables, inflight, now>>
    ELSE /\ sessions' = Patch(sessions, sessionId, [status |-> "ended"])
         /\ UNCHANGED <<participants, presence, routes, nextPid, inflight, now>>

(* ------------------------------------------------------- sessionCleanup *)
expiredSessions ==
    {s \in 1..Len(sessions) :
        sessions[s].status = "active" /\ sessions[s].expiresAt < now}

expireStaleSessionsResult == Ok([expiredCount |-> Cardinality(expiredSessions)])

expireStaleSessions ==
    LET gone == {p \in 1..Len(participants) :
                    participants[p].sessionId \in expiredSessions}
        pids == {participants[p]._id : p \in gone}
    IN /\ sessions' = [s \in 1..Len(sessions) |->
                          IF s \in expiredSessions
                          THEN [sessions[s] EXCEPT !.status = "ended"]
                          ELSE sessions[s]]
       /\ presence' = DeleteRows(presence, {findPresence(pid) : pid \in pids} \ {0})
       /\ routes' = DeleteRows(routes, {findRoute(pid) : pid \in pids} \ {0})
       /\ participants' = DeleteRows(participants, gone)
       /\ UNCHANGED <<nextPid, inflight, now>>

(* ------------------------------------------------------------- presence *)
\* distance / (timeDelta / 1000) > MAX_SPEED_MPS, timeDelta in milliseconds
tooFast(distance, timeDelta) == distance * 1000 > MAX_SPEED_MPS * timeDelta

\* an accuracy gate that also turns away the ceiling itself
lowAccuracyInclusive(accuracy) ==
    accuracy # <<>> /\ accuracy[1] >= MAX_ACCURACY_METERS

lowAccuracy(accuracy) == accuracy # <<>> /\ accuracy[1] > MAX_ACCURACY_METERS

\* a baseline test that takes any prior row, the one at (0,0) included
hasBaselineAlways(existingPresence, timeDelta) == timeDelta > 0

\* the prior row gives a baseline for the speed check
hasBaseline(existingPresence, timeDelta) ==
    timeDelta > 0 /\ existingPresence.latitude # 0

\* the checks with the accuracy gate ahead of the participant lookup
updateLocationResultAccuracyFirst(sessionId, deviceId, latitude, longitude, accuracy) ==
    LET s == sessionRow(sessionId)
        p == findParticipant(deviceId, sessionId)
    IN IF s = <<>> \/ s[1].status # "active" THEN Error("Session not active")
       ELSE IF lowAccuracy(accuracy) THEN Rejected("GPS accuracy too low")
       ELSE IF p = 0 THEN Error("Not in session")
       ELSE LET e == findPresence(participants[p]._id)
                timeDelta == IF e = 0 THEN 0 ELSE now - presence[e].updatedAt
            IN IF /\ e # 0
                  /\ hasBaseline(presence[e], timeDelta)
                  /\ tooFast(haversineDistance(presence[e].latitude,
                                               presence[e].longitude,
                                               latitude, longitude), timeDelta)
               THEN Rejected("Movement too fast (teleport rejected)")
               ELSE Ok(<<>>)

updateLocationResult(sessionId, deviceId, latitude, longitude, accuracy) ==
    LET s == sessionRow(sessionId)
        p == findParticipant(deviceId, sessionId)
    IN IF s = <<>> \/ s[1].status # "active" THEN Error("Session not active")
       ELSE IF p = 0 THEN Error("Not in session")
       ELSE IF lowAccuracy(accuracy) THEN Rejected("GPS accuracy too low")
       ELSE LET e == findPresence(participants[p]._id)
                timeDelta == IF e = 0 THEN 0 ELSE now - presence[e].updatedAt
            IN IF /\ e # 0
                  /\ hasBaseline(presence[e], timeDelta)
                  /\ tooFast(haversineDistance(presence[e].latitude,
                                               presence[e].longitude,
                                               latitude, longitude), timeDelta)
               THEN Rejected("Movement too fast (teleport rejected)")
               ELSE Ok(<<>>)

\* a patch that writes the row afresh, without its delay annotation
presencePatchDroppingDelay(existingPresence, latitude, longitude, heading, speed, accuracy) ==
    [latitude |-> latitude, longitude |-> longitude,
     heading |-> heading, speed |-> speed, accuracy |-> accuracy,
     updatedAt |-> now, delayStatus |-> <<>>]

\* a patch that keeps a field the call omitted
presencePatchKeepingOmitted(existingPresence, latitude, longitude, heading, speed, accuracy) ==
    [latitude |-> latitude, longitude |-> longitude,
     heading |-> IF heading = <<>> THEN existingPresence.heading ELSE heading,
     speed |-> IF speed = <<>> THEN existingPresence.speed ELSE speed,
     accuracy |-> IF accuracy = <<>> THEN existingPresence.accuracy ELSE accuracy,
     updatedAt |-> now, delayStatus |-> existingPresence.delayStatus]

\* the fields ctx.db.patch writes to the existing presence row
presencePatch(existingPresence, latitude, longitude, heading, speed, accuracy) ==
    [latitude |-> latitude, longitude |-> longitude,
     heading |-> heading, speed |-> speed, accuracy |-> accuracy,
     updatedAt |-> now, delayStatus |-> existingPresence.delayStatus]

updateLocation(sessionId, deviceId, latitude, longitude, heading, speed, accuracy) ==
    LET res == updateLocationResult(sessionId, deviceId, latitude, longitude, accuracy)
    IN IF res.kind # "ok" THEN UNCHANGED <<tables, inflight, now>>
       ELSE LET p == findParticipant(deviceId, sessionId)
                pid == participants[p]._id
                e == findPresence(pid)
            IN /\ presence' =
                     IF e # 0
                     THEN Patch(presence, e,
                              presencePatch(presence[e], latitude, longitude,
                                            heading, speed, accuracy))
                     ELSE Append(presence,
                              [participantId |-> pid, sessionId |-> sessionId,
                               latitude |-> latitude, longitude |-> longitude,
                               heading |-> heading, speed |-> speed,
                               accuracy |-> accuracy, updatedAt |-> now,
                               delayStatus |-> <<>>])
               /\ participants' = Patch(participants, p, [lastSeenAt |-> now])
               /\ UNCHANGED <<sessions, routes, nextPid, inflight, now>>

\* reportDelay and clearDelay look up the participant and its presence row
delayResult(sessionId, deviceId) ==
    LET p == findParticipant(deviceId, sessionId)
    IN IF p = 0 THEN Error("Not in session")
       ELSE IF findPresence(participants[p]._id) = 0 THEN Error("No presence record")
       ELSE Ok(<<>>)

reportDelayResult(sessionId, deviceId) == delayResult(sessionId, deviceId)

\* a reportDelay that also counts as a sign of life
reportDelayTouchingLastSeen(sessionId, deviceId, type, delayMinutes) ==
    IF reportDelayResult(sessionId, deviceId).kind # "ok"
    THEN UNCHANGED <<tables, inflight, now>>
    ELSE LET p == findParticipant(deviceId, sessionId)
             e == findPresence(participants[p]._id)
         IN /\ presence' = Patch(presence, e,
                   [delayStatus |-> <<[type |-> type, delayMinutes |-> delayMinutes,
                                       reportedAt |-> now]>>])
            /\ participants' = Patch(participants, p, [lastSeenAt |-> now])
            /\ UNCHANGED <<sessions, routes, nextPid, inflight, now>>

reportDelay(sessionId, deviceId, type, delayMinutes) ==
    IF reportDelayResult(sessionId, deviceId).kind # "ok"
    THEN UNCHANGED <<tables, inflight, now>>
    ELSE LET e == findPresence(participants[findParticipant(deviceId, sessionId)]._id)
         IN /\ presence' = Patch(presence, e,
                   [delayStatus |-> <<[type |-> type, delayMinutes |-> delayMinutes,
                                       reportedAt |-> now]>>])
            /\ UNCHANGED <<sessions, participants, routes, nextPid, inflight, now>>

\* a clearDelay that fails when there is no annotation to clear
clearDelayResultStrict(sessionId, deviceId) ==
    LET p == findParticipant(deviceId, sessionId)
        e == IF p = 0 THEN 0 ELSE findPresence(participants[p]._id)
    IN IF p = 0 THEN Error("Not in session")
       ELSE IF e = 0 THEN Error("No presence record")
       ELSE IF presence[e].delayStatus = <<>> THEN Error("No delay reported")
       ELSE Ok(<<>>)

clearDelayResult(sessionId, deviceId) == delayResult(sessionId, deviceId)

\* a clearDelay that also marks the participant as seen
clearDelayTouchingLastSeen(sessionId, deviceId) ==
    IF clearDelayResult(sessionId, deviceId).kind # "ok"
    THEN UNCHANGED <<tables, inflight, now>>
    ELSE LET p == findParticipant(deviceId, sessionId)
             e == findPresence(participants[p]._id)
         IN /\ presence' = Patch(presence, e, [delayStatus |-> <<>>])
            /\ participants' = Patch(participants, p, [lastSeenAt |-> now])
            /\ UNCHANGED <<sessions, routes, nextPid, inflight, now>>

clearDelay(sessionId, deviceId) ==
    IF clearDelayResult(sessionId, deviceId).kind # "ok"
    THEN UNCHANGED <<tables, inflight, now>>
    ELSE LET e == findPresence(participants[findParticipant(deviceId, sessionId)]._id)
         IN /\ presence' = Patch(presence, e, [delayStatus |-> <<>>])
            /\ UNCHANGED <<sessions, participants, routes, nextPid, inflight, now>>

(* ---------------------------------------------------------- destination *)
\* an invalidation that deletes only the first route of the session
deleteFirstSessionRoute(sessionId) ==
    DeleteRows(routes, {First(sessionRoutes(sessionId))} \ {0})

deleteSessionRoutes(sessionId) == DeleteRows(routes, sessionRoutes(sessionId))

setWaypointResult(sessionId) ==
    LET s == sessionRow(sessionId)
    IN IF s = <<>> THEN Error("Session not found")
       ELSE IF s[1].status # "active" THEN Error("Session not active")
       ELSE Ok(<<>>)

setWaypoint(sessionId, latitude, longitude, name) ==
    IF setWaypointResult(sessionId).kind # "ok"
    THEN UNCHANGED <<tables, inflight, now>>
    ELSE /\ sessions' = Patch(sessions, sessionId,
                [destination |-> <<[latitude |-> latitude, longitude |-> longitude,
                                    name |-> name, updatedAt |-> now]>>])
         /\ routes' = deleteSessionRoutes(sessionId)
         /\ UNCHANGED <<participants, presence, nextPid, inflight, now>>

clearWaypointResult(sessionId) ==
    IF sessionRow(sessionId) = <<>> THEN Error("Session not found") ELSE Ok(<<>>)

\* a clearWaypoint that puts the session back to active
clearWaypointReviving(sessionId) ==
    IF clearWaypointResult(sessionId).kind # "ok"
    THEN UNCHANGED <<tables, inflight, now>>
    ELSE /\ sessions' = Patch(sessions, sessionId,
                               [destination |-> <<>>, status |-> "active"])
         /\ routes' = deleteSessionRoutes(sessionId)
         /\ UNCHANGED <<participants, presence, nextPid, inflight, now>>

clearWaypoint(sessionId) ==
    IF clearWaypointResult(sessionId).kind # "ok"
    THEN UNCHANGED <<tables, inflight, now>>
    ELSE /\ sessions' = Patch(sessions, sessionId, [destination |-> <<>>])
         /\ routes' = deleteSessionRoutes(sessionId)
         /\ UNCHANGED <<participants, presence, nextPid, inflight, now>>

(* ------------------------------------------------------------------ eta *)
\* JSON.stringify(route.geometry)
JSONstringify(geometry) == <<"json", geometry>>

\* a cache write that always inserts
cacheRouteInserting(sessionId, participantId, polyline, distanceMeters, etaSeconds, originLatitude, originLongitude) ==
    Append(routes,
           [sessionId |-> sessionId, participantId |-> participantId,
            polyline |-> polyline, distanceMeters |-> distanceMeters,
            etaSeconds |-> etaSeconds, originLatitude |-> originLatitude,
            originLongitude |-> originLongitude, computedAt |-> now])

\* the routes table after the cacheRoute mutation
cacheRoute(sessionId, participantId, polyline, distanceMeters, etaSeconds, originLatitude, originLongitude) ==
    LET existing == findRoute(participantId)
    IN IF existing # 0
       THEN Patch(routes, existing,
                [polyline |-> polyline, distanceMeters |-> distanceMeters,
                 etaSeconds |-> etaSeconds, originLatitude |-> originLatitude,
                 originLongitude |-> originLongitude, computedAt |-> now])
       ELSE Append(routes,
                [sessionId |-> sessionId, participantId |-> participantId,
                 polyline |-> polyline, distanceMeters |-> distanceMeters,
                 etaSeconds |-> etaSeconds, originLatitude |-> originLatitude,
                 originLongitude |-> originLongitude, computedAt |-> now])

\* computeRoute up to its await fetch(url): the request is outstanding
computeRouteCall(sessionId, participantId, originLatitude, originLongitude, destLatitude, destLongitude) ==
    LET call == [sessionId |-> sessionId, participantId |-> participantId,
                 originLatitude |-> originLatitude,
                 originLongitude |-> originLongitude,
                 destLatitude |-> destLatitude, destLongitude |-> destLongitude]
    IN /\ Cardinality(inflight) < MaxInflight
       /\ call \notin inflight
       /\ inflight' = inflight \cup {call}
       /\ UNCHANGED <<tables, now>>

\* response is what the routing service answered: <<[ok, routes]>> for an
\* HTTP response, <<>> for a fetch that threw
\* a failure test that does not look at the HTTP status
routingFailedIgnoringStatus(response) ==
    \/ response = <<>>
    \/ response[1].routes = <<>>

routingFailed(response) ==
    \/ response = <<>>
    \/ ~response[1].ok
    \/ response[1].routes = <<>>

computeRouteResult(response) ==
    IF routingFailed(response) THEN Failed("Route computation failed")
    ELSE LET route == response[1].routes[1]
         IN Ok([polyline |-> JSONstringify(route.geometry),
                distanceMeters |-> route.distance, etaSeconds |-> route.duration])

\* the rest of computeRoute, from the response on
computeRouteReturn(call, response) ==
    LET res == computeRouteResult(response)
    IN /\ call \in inflight
       /\ inflight' = inflight \ {call}
       /\ IF res.kind # "ok" THEN UNCHANGED <<tables, now>>
          ELSE /\ routes' = cacheRoute(call.sessionId, call.participantId,
                                       res.value.polyline, res.value.distanceMeters,
                                       res.value.etaSeconds,
                                       call.originLatitude, call.originLongitude)
               /\ UNCHANGED <<sessions, participants, presence, nextPid, now>>

\* an age test that is already stale at the threshold
isTimeStaleInclusive(route) == now - route.computedAt >= ROUTE_STALE_MS

isTimeStale(route) == now - route.computedAt > ROUTE_STALE_MS

\* presenceMap.get: the Map built from the session's presence rows keeps the
\* last row of a participant; 0 for undefined
presenceMap(sessionId, participantId) ==
    LET m == {i \in 1..Len(presence) : /\ presence[i].sessionId = sessionId
                                        /\ presence[i].participantId = participantId}
    IN IF m = {} THEN 0 ELSE CHOOSE i \in m : \A j \in m : j <= i

isDriftStale(route) ==
    LET e == presenceMap(route.sessionId, route.participantId)
    IN IF e # 0
       THEN haversineDistance(route.originLatitude, route.originLongitude,
                              presence[e].latitude, presence[e].longitude)
              > ROUTE_ORIGIN_DRIFT_M
       ELSE FALSE

\* an eta that adds the delay the participant declared
etaOfWithDelay(route) ==
    LET e == presenceMap(route.sessionId, route.participantId)
        late == IF e = 0 \/ presence[e].delayStatus = <<>> THEN 0
                ELSE presence[e].delayStatus[1].delayMinutes * 60
    IN [participantId |-> route.participantId, polyline |-> route.polyline,
        distanceMeters |-> route.distanceMeters,
        etaSeconds |-> route.etaSeconds + late,
        computedAt |-> route.computedAt,
        isStale |-> isTimeStale(route) \/ isDriftStale(route)]

etaOf(route) ==
    [participantId |-> route.participantId, polyline |-> route.polyline,
     distanceMeters |-> route.distanceMeters, etaSeconds |-> route.etaSeconds,
     computedAt |-> route.computedAt,
     isStale |-> isTimeStale(route) \/ isDriftStale(route)]

SelectRows(table, keep) == DeleteRows(table, (1..Len(table)) \ keep)

getETAsResult(sessionId) ==
    LET s == sessionRow(sessionId)
    IN IF s = <<>> \/ s[1].destination = <<>>
       THEN Ok([hasDestination |-> FALSE, destination |-> <<>>, etas |-> <<>>])
       ELSE LET rows == SelectRows(routes, sessionRoutes(sessionId))
            IN Ok([hasDestination |-> TRUE, destination |-> s[1].destination,
                   etas |-> [i \in 1..Len(rows) |-> etaOf(rows[i])]])

\* a query reads only
getETAs(sessionId) == UNCHANGED <<tables, inflight, now>>

\* a check that looks at the drift before the age
checkRouteStaleResultDriftFirst(participantId) ==
    LET r == findRoute(participantId)
        e == findPresence(participantId)
    IN IF r = 0 THEN Ok([needsCompute |-> TRUE, reason |-> "no_route"])
       ELSE IF /\ e # 0
               /\ haversineDistance(routes[r].originLatitude,
                                    routes[r].originLongitude,
                                    presence[e].latitude, presence[e].longitude)
                    > ROUTE_ORIGIN_DRIFT_M
       THEN Ok([needsCompute |-> TRUE, reason |-> "drift"])
       ELSE IF now - routes[r].computedAt > ROUTE_STALE_MS
       THEN Ok([needsCompute |-> TRUE, reason |-> "time_stale"])
       ELSE Ok([needsCompute |-> FALSE, reason |-> ""])

\* checkRouteStale: { needsCompute, reason }, reason "" when there is none
checkRouteStaleResult(participantId) ==
    LET r == findRoute(participantId)
        e == findPresence(participantId)
    IN IF r = 0 THEN Ok([needsCompute |-> TRUE, reason |-> "no_route"])
       ELSE IF now - routes[r].computedAt > ROUTE_STALE_MS
       THEN Ok([needsCompute |-> TRUE, reason |-> "time_stale"])
       ELSE IF /\ e # 0
               /\ haversineDistance(routes[r].originLatitude,
                                    routes[r].originLongitude,
                                    presence[e].latitude, presence[e].longitude)
                    > ROUTE_ORIGIN_DRIFT_M
       THEN Ok([needsCompute |-> TRUE, reason |-> "drift"])
       ELSE Ok([needsCompute |-> FALSE, reason |-> ""])

\* a query reads only
checkRouteStale(participantId) == UNCHANGED <<tables, inflight, now>>

(* -------------------------------------------------------- presence reads *)
\* an expiry test that also drops a delay exactly 15 minutes old
isExpiredInclusive(delayStatus) == now - delayStatus.reportedAt >= DELAY_EXPIRY_MS

\* getLiveParticipants: now - presence.delayStatus.reportedAt > DELAY_EXPIRY_MS
isExpired(delayStatus) == now - delayStatus.reportedAt > DELAY_EXPIRY_MS

\* a liveness test that keeps a participant last seen exactly 60 s ago
isActiveInclusive(participant) == now - participant.lastSeenAt <= STALE_THRESHOLD_MS

\* now - participant.lastSeenAt < STALE_THRESHOLD_MS
isActive(participant) == now - participant.lastSeenAt < STALE_THRESHOLD_MS

\* the delay getLiveParticipants shows for a presence row: undefined (<<>>)
\* without a row, without an annotation, or with an expired one
liveDelay(e) ==
    IF e = 0 \/ presence[e].delayStatus = <<>> THEN <<>>
    ELSE IF isExpired(presence[e].delayStatus[1]) THEN <<>>
    ELSE <<[type |-> presence[e].delayStatus[1].type,
            minutes |-> presence[e].delayStatus[1].delayMinutes,
            isExpired |-> FALSE]>>

\* the location getLiveParticipants shows: null (<<>>) without a row
liveLocation(e) ==
    IF e = 0 THEN <<>>
    ELSE <<[latitude |-> presence[e].latitude, longitude |-> presence[e].longitude,
            heading |-> presence[e].heading, speed |-> presence[e].speed,
            updatedAt |-> presence[e].updatedAt]>>

liveEntry(participant) ==
    LET e == presenceMap(participant.sessionId, participant._id)
    IN [id |-> participant._id, displayName |-> participant.displayName,
        color |-> participant.color, isActive |-> isActive(participant),
        location |-> liveLocation(e), delay |-> liveDelay(e)]

getLiveParticipantsResult(sessionId) ==
    LET rows == SelectRows(participants, sessionParticipants(sessionId))
        live == {i \in 1..Len(rows) : liveEntry(rows[i]).isActive}
    IN Ok(SelectRows([i \in 1..Len(rows) |-> liveEntry(rows[i])], live))

\* a query reads only
getLiveParticipants(sessionId) == UNCHANGED <<tables, inflight, now>>

getAllParticipantsResult(sessionId) ==
    LET rows == SelectRows(participants, sessionParticipants(sessionId))
    IN Ok([i \in 1..Len(rows) |->
             [id |-> rows[i]._id, displayName |-> rows[i].displayName,
              color |-> rows[i].color, isActive |-> isActive(rows[i]),
              joinedAt |-> rows[i].joinedAt]])

\* a query reads only
getAllParticipants(sessionId) == UNCHANGED <<tables, inflight, now>>

(* ---------------------------------------------------------------- clock *)
\* time passes: Date.now() grows by step, up to the horizon
Tick(step, horizon) ==
    /\ now + step <= horizon
    /\ now' = now + step
    /\ UNCHANGED <<tables, inflight>>

(* ------------------------------------------------ useRouteRecomputation *)
\* One mounted hook.  userLocation and destination are the props of a
\* render, <<>> when null.  hook.call is the computeRoute call that recompute
\* awaits, with the userLocation and destination of its closure.
DRIFT_THRESHOLD_M == 500
HOOK_STALE_THRESHOLD_MS == 5 * 60 * 1000

\* trigger 1: no route computed yet
noRouteYet == hook.lastComputeRef = <<>>

\* trigger 2: destination changed
destinationChanged(destination) ==
    \/ hook.lastComputeRef[1].destLat # destination[1].latitude
    \/ hook.lastComputeRef[1].destLng # destination[1].longitude

\* trigger 3: user drifted more than 500 m from the route origin
drifted(userLocation) ==
    haversineDistance(hook.lastComputeRef[1].originLat,
                      hook.lastComputeRef[1].originLng,
                      userLocation[1].latitude, userLocation[1].longitude)
      > DRIFT_THRESHOLD_M

\* trigger 4: the route is older than 5 minutes
routeStale == now - hook.lastComputeRef[1].timestamp > HOOK_STALE_THRESHOLD_MS

triggered(userLocation, destination) ==
    \/ noRouteYet
    \/ destinationChanged(destination)
    \/ drifted(userLocation)
    \/ routeStale

atNullIsland(userLocation) ==
    userLocation[1].latitude = 0 /\ userLocation[1].longitude = 0

hookCall(sessionId, participantId, userLocation, destination) ==
    [sessionId |-> sessionId, participantId |-> participantId,
     originLatitude |-> userLocation[1].latitude,
     originLongitude |-> userLocation[1].longitude,
     destLatitude |-> destination[1].latitude,
     destLongitude |-> destination[1].longitude]

\* a recompute that does not look at isComputing
recomputeUnguarded(sessionId, participantId, userLocation, destination) ==
    IF userLocation = <<>> \/ destination = <<>>
    THEN UNCHANGED <<tables, inflight, now, hook>>
    ELSE IF atNullIsland(userLocation)
    THEN UNCHANGED <<tables, inflight, now, hook>>
    ELSE /\ computeRouteCall(sessionId, participantId,
                             userLocation[1].latitude, userLocation[1].longitude,
                             destination[1].latitude, destination[1].longitude)
         /\ hook' = [hook EXCEPT !.isComputing = TRUE,
                                 !.call = <<hookCall(sessionId, participantId,
                                                     userLocation, destination)>>]

\* recompute up to its await computeRoute(...)
recompute(sessionId, participantId, userLocation, destination) ==
    IF userLocation = <<>> \/ destination = <<>> \/ hook.isComputing
    THEN UNCHANGED <<tables, inflight, now, hook>>
    ELSE IF atNullIsland(userLocation)
    THEN UNCHANGED <<tables, inflight, now, hook>>
    ELSE /\ computeRouteCall(sessionId, participantId,
                             userLocation[1].latitude, userLocation[1].longitude,
                             destination[1].latitude, destination[1].longitude)
         /\ hook' = [hook EXCEPT !.isComputing = TRUE,
                                 !.call = <<hookCall(sessionId, participantId,
                                                     userLocation, destination)>>]

\* whether the effect starts a computeRoute call
triggerEffectResult(userLocation, destination, enabled) ==
    /\ enabled /\ userLocation # <<>> /\ destination # <<>>
    /\ ~atNullIsland(userLocation)
    /\ triggered(userLocation, destination)
    /\ ~hook.isComputing

\* the effect that checks for recomputation triggers
triggerEffect(sessionId, participantId, userLocation, destination, enabled) ==
    IF ~enabled \/ userLocation = <<>> \/ destination = <<>>
    THEN UNCHANGED <<tables, inflight, now, hook>>
    ELSE IF atNullIsland(userLocation)
    THEN UNCHANGED <<tables, inflight, now, hook>>
    ELSE IF triggered(userLocation, destination)
    THEN recompute(sessionId, participantId, userLocation, destination)
    ELSE UNCHANGED <<tables, inflight, now, hook>>

\* the awaited computeRoute returns, with success true or false: the rest of
\* recompute's try block and its finally
computeRouteResolved(response) ==
    /\ hook.call # <<>>
    /\ computeRouteReturn(hook.call[1], response)
    /\ hook' = [isComputing |-> FALSE,
                lastComputeRef |-> <<[destLat |-> hook.call[1].destLatitude,
                                      destLng |-> hook.call[1].destLongitude,
                                      originLat |-> hook.call[1].originLatitude,
                                      originLng |-> hook.call[1].originLongitude,
                                      timestamp |-> now]>>,
                call |-> <<>>]

\* the awaited computeRoute throws, the call never having reached the
\* engine: recompute's catch and finally
computeRouteRejected ==
    /\ hook.call # <<>>
    /\ inflight' = inflight \ {hook.call[1]}
    /\ hook' = [hook EXCEPT !.isComputing = FALSE, !.call = <<>>]
    /\ UNCHANGED <<tables, now>>

(* ------------------------------------------------------ geocoding proxy *)
\* The proxy is one Node process: a handler runs without interruption up to
\* its next await.  geo.sleeping holds the requests waiting in
\* rateLimitedFetch's setTimeout, with the time the timer is due;
\* geo.sent holds the requests sent to Nominatim, with the time they were
\* sent and whether the response has come; geo.cache holds the cached keys
\* with the time they were stored.
MaxRequests == 3
NOMINATIM_RATE_MS == 1000
CACHE_TTL_MS == 300 * 1000

cached(cacheKey) ==
    \E c \in geo.cache : c.key = cacheKey /\ now - c.at < CACHE_TTL_MS

\* rateLimitedFetch up to its first await: the setTimeout when the last
\* request is less than a second old, the fetch otherwise
rateLimitedFetch(url) ==
    LET timeSinceLast == now - geo.lastNominatimRequest
    IN /\ IF timeSinceLast < NOMINATIM_RATE_MS
          THEN geo' = [geo EXCEPT !.sleeping =
                          Append(@, [url |-> url,
                                     wake |-> now + (NOMINATIM_RATE_MS - timeSinceLast)])]
          ELSE geo' = [geo EXCEPT !.lastNominatimRequest = now,
                                  !.sent = Append(@, [url |-> url, at |-> now,
                                                      done |-> FALSE])]
       /\ UNCHANGED <<tables, inflight, now, hook, device>>

\* the timer of a sleeping request fires, at its due time or later:
\* rateLimitedFetch from lastNominatimRequest = Date.now() to its fetch
timerFired(k) ==
    /\ k \in 1..Len(geo.sleeping)
    /\ now >= geo.sleeping[k].wake
    /\ geo' = [geo EXCEPT !.lastNominatimRequest = now,
                          !.sleeping = DeleteRows(@, {k}),
                          !.sent = Append(@, [url |-> geo.sleeping[k].url,
                                              at |-> now, done |-> FALSE])]
    /\ UNCHANGED <<tables, inflight, now, hook, device>>

\* GET /search and GET /reverse up to the await of rateLimitedFetch; the
\* cache key stands for the url
geocode(cacheKey) ==
    /\ Len(geo.sleeping) + Len(geo.sent) < MaxRequests
    /\ IF cached(cacheKey)
       THEN UNCHANGED <<tables, inflight, now, hook, geo, device>>
       ELSE rateLimitedFetch(cacheKey)

search(q) == geocode(<<"search", q>>)
reverse(lat, lon) == geocode(<<"reverse", lat, lon>>)

\* the rest of a handler: Nominatim has answered, and a good answer is cached
responded(k, ok) ==
    /\ k \in 1..Len(geo.sent)
    /\ ~geo.sent[k].done
    /\ geo' = [geo EXCEPT !.sent[k].done = TRUE,
                          !.cache = IF ok
                                    THEN {c \in @ : c.key # geo.sent[k].url}
                                           \cup {[key |-> geo.sent[k].url, at |-> now]}
                                    ELSE @]
    /\ UNCHANGED <<tables, inflight, now, hook, device>>

(* ------------------------------------------------------ device identity *)
\* The service runs in one JavaScript thread: a getDeviceId call runs without
\* interruption from one await to the next.  device.calls holds the calls
\* that are awaiting, each with the await it is at (pc) and the identifier it
\* has generated (newId); identifiers are numbered as generateDeviceId makes
\* them, no two alike.  An AsyncStorage call that fails throws and has
\* written nothing.
MaxCalls == 3

\* what a getDeviceId call returns when it starts: the cached identifier,
\* or nothing yet (<<>>) as it goes on to read the storage
getDeviceIdResult == device.cachedDeviceId

\* getDeviceId up to its first await
getDeviceId ==
    /\ device.started < MaxCalls
    /\ device' = [device EXCEPT
                    !.started = @ + 1,
                    !.calls = IF device.cachedDeviceId # <<>> THEN @
                              ELSE Append(@, [pc |-> "getItem", newId |-> 0])]
    /\ UNCHANGED <<tables, inflight, now, hook, geo>>

\* what call k returns as its await resolves, <<>> when it goes on to its
\* next await; threw says that the AsyncStorage call it awaited failed
resumeResult(k, threw) ==
    LET call == device.calls[k]
    IN IF call.pc = "getItem" /\ ~threw THEN device.storage
       ELSE IF call.pc = "setItem" /\ ~threw THEN <<call.newId>>
       ELSE IF call.pc = "fallback" THEN <<device.generated + 1>>
       ELSE <<>>

\* call k goes on from the await it is at: AsyncStorage.getItem, the
\* generateDeviceId of the try block, AsyncStorage.setItem, or the
\* generateDeviceId of the catch block
resume(k, threw) ==
    LET call == device.calls[k]
    IN /\ device' =
            IF call.pc = "getItem"
            THEN IF threw
                 THEN [device EXCEPT !.calls[k].pc = "fallback"]
                 ELSE IF device.storage # <<>>
                 THEN [device EXCEPT !.cachedDeviceId = device.storage,
                                     !.calls = DeleteRows(@, {k})]
                 ELSE [device EXCEPT !.calls[k].pc = "generate"]
            ELSE IF call.pc = "generate"
            THEN [device EXCEPT !.calls[k] = [pc |-> "setItem",
                                              newId |-> device.generated + 1],
                                !.generated = @ + 1]
            ELSE IF call.pc = "setItem"
            THEN IF threw
                 THEN [device EXCEPT !.calls[k].pc = "fallback"]
                 ELSE [device EXCEPT !.storage = <<call.newId>>,
                                     !.cachedDeviceId = <<call.newId>>,
                                     !.calls = DeleteRows(@, {k})]
            ELSE [device EXCEPT !.cachedDeviceId = <<device.generated + 1>>,
                                !.generated = @ + 1,
                                !.calls = DeleteRows(@, {k})]
       /\ UNCHANGED <<tables, inflight, now, hook, geo>>

clearDeviceId ==
    /\ device' = [device EXCEPT !.cachedDeviceId = <<>>, !.storage = <<>>]
    /\ UNCHANGED <<tables, inflight, now, hook, geo>>

\* the app is started again: the module's memory is new, the storage is kept
restart ==
    /\ device' = [device EXCEPT !.cachedDeviceId = <<>>, !.calls = <<>>]
    /\ UNCHANGED <<tables, inflight, now, hook, geo>>

(* ---------------------------------------------------------- observation *)
\* the response of the operation just performed is recorded, or is not
\* (Observed, Unobserved); a step of the engine leaves the hook and the proxy
\* as they were (Logged, Unlogged)
Observed(op, args, res) == ret' = [op |-> op, args |-> args, at |-> now, res |-> res]
Unobserved == ret' = [op |-> "", args |-> <<>>, at |-> 0, res |-> Ok(<<>>)]
Logged(op, args, res) == Observed(op, args, res) /\ UNCHANGED <<hook, geo, device>>
Unlogged == Unobserved /\ UNCHANGED <<hook, geo, device>>

(* --------------------------------------------------------------- inputs *)
Devices == {"d1", "d2"}
Absent == <<>>

\* the codes generateCode draws: the first draw and MAX_CODE_ATTEMPTS redraws,
\* here a code a repeated up to some draw and a code b from then on
Draws(codes) ==
    {[k \in 1..(MAX_CODE_ATTEMPTS + 1) |-> IF k <= j THEN a ELSE b] :
        a \in codes, b \in codes, j \in {1, MAX_CODE_ATTEMPTS + 1}}

\* positions <<latitude, longitude>>: null island, a point on the equator,
\* and two points off it; all pairwise distances are whole metres
NullIsland == <<0, 0>>
OnEquator == <<0, 300>>
North == <<400, 300>>
South == <<-400, 300>>

\* answers of the routing service
RouteA == [geometry |-> "lineA", distance |-> 1200, duration |-> 300]
RouteB == [geometry |-> "lineB", distance |-> 800, duration |-> 200]
HttpOk(rs) == <<[ok |-> TRUE, routes |-> rs]>>
HttpError == <<[ok |-> FALSE, routes |-> <<>>]>>
HttpErrorWithBody == <<[ok |-> FALSE, routes |-> <<RouteA>>]>>
FetchThrew == <<>>
Responses == {HttpOk(<<RouteA>>), HttpOk(<<RouteB, RouteA>>), HttpOk(<<>>),
              HttpError, HttpErrorWithBody, FetchThrew}

\* a client computes a route for a participant it has joined as
Joined(sessionId, participantId) ==
    \E i \in 1..Len(participants) :
        participants[i]._id = participantId /\ participants[i].sessionId = sessionId

(* ------------------------------------------------- presence ingestion *)
\* One session whose creator d1 reports positions, seconds apart; d2 never
\* joins.  Responses of updateLocation are recorded.
PresenceStep == 4 * 1000
Positions == {NullIsland, OnEquator, North, South}
Telemetry == {<<Absent, Absent>>, <<(<<90>>), (<<12>>)>>}
Accuracies == {Absent, <<100>>, <<101>>}

updateLocationArgs(s, d, pos, tel, acc) ==
    [sessionId |-> s, deviceId |-> d, latitude |-> pos[1], longitude |-> pos[2],
     heading |-> tel[1], speed |-> tel[2], accuracy |-> acc]

NextPresence ==
    \/ \E dr \in Draws({"AAAAAA"}) :
          sessions = <<>> /\ createSession("d1", "n", dr) /\ Unlogged
    \/ \E d \in Devices, pos \in Positions, tel \in Telemetry, acc \in Accuracies :
          /\ updateLocation(1, d, pos[1], pos[2], tel[1], tel[2], acc)
          /\ Logged("updateLocation", updateLocationArgs(1, d, pos, tel, acc),
                    updateLocationResult(1, d, pos[1], pos[2], acc))
    \/ reportDelay(1, "d1", "traffic", 5) /\ Unlogged
    \/ clearDelay(1, "d1") /\ Unlogged
    \/ leaveSession(1, "d1") /\ Unlogged
    \/ endSession(1) /\ Unlogged
    \/ Tick(PresenceStep, MaxTicks * PresenceStep) /\ Unlogged

SpecPresence == Init /\ [][NextPresence]_vars

(* ------------------------------------------------------ the whole engine *)
\* Every mutation and the route computation, hours between clock readings,
\* so that sessions expire.  Responses of the gated writes are recorded.
SweepGap == 5 * 60 * 60 * 1000
SessionIds == {1}

Next ==
    \/ \E dr \in Draws({"AAAAAA"}) :
          sessions = <<>> /\ createSession("d1", "n", dr) /\ Unlogged
    \/ \E d \in Devices :
          /\ joinSession("aaaaaa", d, "n")
          /\ Logged("joinSession",
                    [sessionId |-> findSessionByCode("aaaaaa"), deviceId |-> d],
                    joinSessionResult("aaaaaa", d))
    \/ \E s \in SessionIds, d \in Devices : leaveSession(s, d) /\ Unlogged
    \/ \E s \in SessionIds : endSession(s) /\ Unlogged
    \/ expireStaleSessions /\ Unlogged
    \/ \E s \in SessionIds, d \in Devices :
          /\ updateLocation(s, d, North[1], North[2], Absent, Absent, Absent)
          /\ Logged("updateLocation",
                    updateLocationArgs(s, d, North, <<Absent, Absent>>, Absent),
                    updateLocationResult(s, d, North[1], North[2], Absent))
    \/ \E s \in SessionIds, d \in Devices :
          /\ reportDelay(s, d, "traffic", 5)
          /\ Logged("reportDelay", [sessionId |-> s, deviceId |-> d],
                    reportDelayResult(s, d))
    \/ \E s \in SessionIds, d \in Devices :
          /\ clearDelay(s, d)
          /\ Logged("clearDelay", [sessionId |-> s, deviceId |-> d],
                    clearDelayResult(s, d))
    \/ \E s \in SessionIds :
          /\ setWaypoint(s, South[1], South[2], Absent)
          /\ Logged("setWaypoint", [sessionId |-> s], setWaypointResult(s))
    \/ \E s \in SessionIds :
          /\ clearWaypoint(s)
          /\ Logged("clearWaypoint", [sessionId |-> s], clearWaypointResult(s))
    \/ \E s \in SessionIds, p \in 1..MaxParticipants :
          /\ Joined(s, p)
          /\ computeRouteCall(s, p, North[1], North[2], South[1], South[2])
          /\ Unlogged
    \/ \E c \in inflight, r \in {HttpOk(<<RouteA>>), HttpError} :
          /\ computeRouteReturn(c, r)
          /\ Logged("computeRoute", [sessionId |-> c.sessionId, call |-> c,
                                     response |-> r], computeRouteResult(r))
    \/ Tick(SweepGap, MaxSweeps * SweepGap) /\ Unlogged

Spec == Init /\ [][Next]_vars

(* ------------------------------------------------------ presence snapshot *)
\* d1 creates sessions, both devices join and leave them and report a
\* position, d2 declares delays, and the sweep runs, hours between clock
\* readings.
NextSnapshot ==
    \/ \E dr \in Draws({"AAAAAA", "BBBBBB"}) :
          createSession("d1", "n", dr) /\ Unlogged
    \/ \E c \in {"aaaaaa", "BBBBBB"}, d \in Devices :
          /\ joinSession(c, d, "n")
          /\ Logged("joinSession",
                    [sessionId |-> findSessionByCode(c), deviceId |-> d],
                    joinSessionResult(c, d))
    \/ \E s \in 1..MaxSessions, d \in Devices :
          /\ updateLocation(s, d, North[1], North[2], Absent, Absent, Absent)
          /\ Logged("updateLocation",
                    updateLocationArgs(s, d, North, <<Absent, Absent>>, Absent),
                    updateLocationResult(s, d, North[1], North[2], Absent))
    \/ \E s \in 1..MaxSessions : reportDelay(s, "d2", "traffic", 5) /\ Unlogged
    \/ \E s \in 1..MaxSessions : clearDelay(s, "d2") /\ Unlogged
    \/ \E s \in 1..MaxSessions, d \in Devices :
          /\ leaveSession(s, d)
          /\ Logged("leaveSession", [sessionId |-> s, deviceId |-> d],
                    leaveSessionResult(s, d))
    \/ expireStaleSessions /\ Unlogged
    \/ Tick(SweepGap, MaxSweeps * SweepGap) /\ Unlogged

SpecSnapshot == Init /\ [][NextSnapshot]_vars

(* ----------------------------------------------------------- route cache *)
\* d1 creates sessions and d2 joins them; destinations are set and cleared
\* while route computations for the participants are outstanding, minutes
\* between clock readings.  Responses of setWaypoint, clearWaypoint and
\* computeRoute are recorded.
RouteStep == ROUTE_STALE_MS

computeRouteArgs(call, response) ==
    [sessionId |-> call.sessionId, call |-> call, response |-> response]

NextRoutes ==
    \/ \E dr \in Draws({"AAAAAA", "BBBBBB"}) :
          createSession("d1", "n", dr) /\ Unlogged
    \/ joinSession("aaaaaa", "d2", "n") /\ Unlogged
    \/ \E s \in 1..MaxSessions, d \in Devices : leaveSession(s, d) /\ Unlogged
    \/ \E s \in 1..MaxSessions :
          /\ setWaypoint(s, South[1], South[2], <<"cafe">>)
          /\ Logged("setWaypoint", [sessionId |-> s], setWaypointResult(s))
    \/ \E s \in 1..MaxSessions :
          /\ clearWaypoint(s)
          /\ Logged("clearWaypoint", [sessionId |-> s], clearWaypointResult(s))
    \/ \E s \in 1..MaxSessions, p \in 1..MaxParticipants, o \in {North, OnEquator} :
          /\ Joined(s, p)
          /\ computeRouteCall(s, p, o[1], o[2], South[1], South[2])
          /\ Unlogged
    \/ \E c \in inflight, r \in {HttpOk(<<RouteA>>), HttpError} :
          /\ computeRouteReturn(c, r)
          /\ Logged("computeRoute", computeRouteArgs(c, r), computeRouteResult(r))
    \/ Tick(RouteStep, MaxSweeps * RouteStep) /\ Unlogged

SpecRoutes == Init /\ [][NextRoutes]_vars

(* ------------------------------------------------------------ ETA reads *)
\* One session whose creator d1 moves about while routes from North are
\* computed for it, answered in every way the routing service can answer;
\* the cache is read a threshold's time apart.  Responses of computeRoute
\* and getETAs are recorded.
NextEta ==
    \/ \E dr \in Draws({"AAAAAA"}) :
          sessions = <<>> /\ createSession("d1", "n", dr) /\ Unlogged
    \/ leaveSession(1, "d1") /\ Unlogged
    \/ \E pos \in Positions :
          updateLocation(1, "d1", pos[1], pos[2], Absent, Absent, Absent) /\ Unlogged
    \/ setWaypoint(1, South[1], South[2], Absent) /\ Unlogged
    \/ clearWaypoint(1) /\ Unlogged
    \/ /\ Joined(1, 1)
       /\ computeRouteCall(1, 1, North[1], North[2], South[1], South[2])
       /\ Unlogged
    \/ \E c \in inflight, r \in Responses :
          /\ computeRouteReturn(c, r)
          /\ Logged("computeRoute", computeRouteArgs(c, r), computeRouteResult(r))
    \/ getETAs(1) /\ Logged("getETAs", [sessionId |-> 1], getETAsResult(1))
    \/ Tick(RouteStep, MaxTicks * RouteStep) /\ Unlogged

SpecEta == Init /\ [][NextEta]_vars

(* ------------------------------------------------------ delay annotations *)
\* One session whose creator d1 reports and clears delays and keeps moving,
\* while d2, who never joined, tries the same; the clock is read at the
\* start, a minute short of the delay expiry, and every minute from then on.
\* Every response is recorded; a clearDelay also records whether it repeats
\* the call just made.
DelayStep == 60 * 1000
DelayReports == {<<"traffic", 5>>, <<"blocked", 10>>}

delayArgs(d) == [sessionId |-> 1, deviceId |-> d]

NextDelay ==
    \/ \E dr \in Draws({"AAAAAA"}) :
          sessions = <<>> /\ createSession("d1", "n", dr) /\ Unlogged
    \/ \E pos \in {North, South} :
          /\ updateLocation(1, "d1", pos[1], pos[2], <<90>>, Absent, Absent)
          /\ Logged("updateLocation",
                    updateLocationArgs(1, "d1", pos, <<(<<90>>), Absent>>, Absent),
                    updateLocationResult(1, "d1", pos[1], pos[2], Absent))
    \/ \E d \in Devices, r \in DelayReports :
          /\ reportDelay(1, d, r[1], r[2])
          /\ Logged("reportDelay",
                    [sessionId |-> 1, deviceId |-> d, type |-> r[1],
                     delayMinutes |-> r[2]],
                    reportDelayResult(1, d))
    \/ \E d \in Devices :
          /\ clearDelay(1, d)
          /\ Logged("clearDelay",
                    [sessionId |-> 1, deviceId |-> d,
                     again |-> /\ ret.op = "clearDelay"
                               /\ ret.args.deviceId = d
                               /\ ret.res.kind = "ok"],
                    clearDelayResult(1, d))
    \/ /\ getLiveParticipants(1)
       /\ Logged("getLiveParticipants", [sessionId |-> 1],
                 getLiveParticipantsResult(1))
    \/ /\ Tick(IF now = 0 THEN DELAY_EXPIRY_MS - DelayStep ELSE DelayStep,
               DELAY_EXPIRY_MS + (MaxTicks - 1) * DelayStep)
       /\ Unlogged

SpecDelay == Init /\ [][NextDelay]_vars

(* --------------------------------------------------------------- liveness *)
\* One session that d2 may join; both devices report positions; the clock is
\* read at the start, a second short of the stale threshold, and every second
\* from then on.  Responses of the two participant reads are recorded.
LiveStep == 1000

NextLive ==
    \/ \E dr \in Draws({"AAAAAA"}) :
          sessions = <<>> /\ createSession("d1", "n", dr) /\ Unlogged
    \/ joinSession("aaaaaa", "d2", "m") /\ Unlogged
    \/ \E d \in Devices :
          updateLocation(1, d, North[1], North[2], Absent, Absent, Absent) /\ Unlogged
    \/ /\ getLiveParticipants(1)
       /\ Logged("getLiveParticipants", [sessionId |-> 1],
                 getLiveParticipantsResult(1))
    \/ /\ getAllParticipants(1)
       /\ Logged("getAllParticipants", [sessionId |-> 1],
                 getAllParticipantsResult(1))
    \/ /\ Tick(IF now = 0 THEN STALE_THRESHOLD_MS - LiveStep ELSE LiveStep,
               STALE_THRESHOLD_MS + (MaxTicks - 1) * LiveStep)
       /\ Unlogged

SpecLive == Init /\ [][NextLive]_vars

(* ------------------------------------------------------ delay and routes *)
\* One session with a destination, whose creator d1 moves, has routes
\* computed and cached, and reports and clears delays, a route threshold's
\* time apart.  Responses of reportDelay and clearDelay are recorded.
NextDelayRoutes ==
    \/ \E dr \in Draws({"AAAAAA"}) :
          sessions = <<>> /\ createSession("d1", "n", dr) /\ Unlogged
    \/ \E pos \in {North, South} :
          updateLocation(1, "d1", pos[1], pos[2], Absent, Absent, Absent) /\ Unlogged
    \/ setWaypoint(1, South[1], South[2], Absent) /\ Unlogged
    \/ /\ Joined(1, 1)
       /\ computeRouteCall(1, 1, North[1], North[2], South[1], South[2])
       /\ Unlogged
    \/ \E c \in inflight, r \in {HttpOk(<<RouteA>>), HttpOk(<<RouteB, RouteA>>)} :
          computeRouteReturn(c, r) /\ Unlogged
    \/ \E r \in DelayReports :
          /\ reportDelay(1, "d1", r[1], r[2])
          /\ Logged("reportDelay",
                    [sessionId |-> 1, deviceId |-> "d1", type |-> r[1],
                     delayMinutes |-> r[2]],
                    reportDelayResult(1, "d1"))
    \/ /\ clearDelay(1, "d1")
       /\ Logged("clearDelay", delayArgs("d1"), clearDelayResult(1, "d1"))
    \/ Tick(RouteStep, MaxTicks * RouteStep) /\ Unlogged

SpecDelayRoutes == Init /\ [][NextDelayRoutes]_vars

(* ----------------------------------------------------- around the origin *)
\* One session that d2 may join; both devices report positions on the
\* equator, at (0,0) and 49 m, 51 m and 300 m east of it, with a heading, a
\* second apart.  Responses of updateLocation are recorded.
OriginStep == 1000
Metres49 == <<0, 49>>
Metres51 == <<0, 51>>
OriginPositions == {NullIsland, Metres49, Metres51, OnEquator}

NextOrigin ==
    \/ \E dr \in Draws({"AAAAAA"}) :
          sessions = <<>> /\ createSession("d1", "n", dr) /\ Unlogged
    \/ joinSession("aaaaaa", "d2", "m") /\ Unlogged
    \/ \E d \in Devices, pos \in OriginPositions :
          /\ updateLocation(1, d, pos[1], pos[2], <<90>>, Absent, Absent)
          /\ Logged("updateLocation",
                    updateLocationArgs(1, d, pos, <<(<<90>>), Absent>>, Absent),
                    updateLocationResult(1, d, pos[1], pos[2], Absent))
    \/ Tick(OriginStep, MaxTicks * OriginStep) /\ Unlogged

SpecOrigin == Init /\ [][NextOrigin]_vars

(* ------------------------------------------------------------ last seen *)
\* One session that d2 joins; d1 reports positions, d2 reports and clears
\* delays, the destination is set and cleared and a route is computed for d2,
\* while the clock is read at the start, a second short of the stale
\* threshold, and every second from then on.  Responses of updateLocation and
\* getLiveParticipants are recorded.
NextLastSeen ==
    \/ \E dr \in Draws({"AAAAAA"}) :
          sessions = <<>> /\ createSession("d1", "n", dr) /\ Unlogged
    \/ joinSession("aaaaaa", "d2", "m") /\ Unlogged
    \/ \E acc \in {Absent, <<MAX_ACCURACY_METERS + 1>>} :
          /\ updateLocation(1, "d1", North[1], North[2], Absent, Absent, acc)
          /\ Logged("updateLocation",
                    updateLocationArgs(1, "d1", North, <<Absent, Absent>>, acc),
                    updateLocationResult(1, "d1", North[1], North[2], acc))
    \/ reportDelay(1, "d2", "traffic", 5) /\ Unlogged
    \/ clearDelay(1, "d2") /\ Unlogged
    \/ setWaypoint(1, South[1], South[2], Absent) /\ Unlogged
    \/ clearWaypoint(1) /\ Unlogged
    \/ /\ Joined(1, 2)
       /\ computeRouteCall(1, 2, North[1], North[2], South[1], South[2])
       /\ Unlogged
    \/ \E c \in inflight : computeRouteReturn(c, HttpOk(<<RouteA>>)) /\ Unlogged
    \/ /\ getLiveParticipants(1)
       /\ Logged("getLiveParticipants", [sessionId |-> 1],
                 getLiveParticipantsResult(1))
    \/ /\ Tick(IF now = 0 THEN STALE_THRESHOLD_MS - LiveStep ELSE LiveStep,
               STALE_THRESHOLD_MS + (MaxTicks - 1) * LiveStep)
       /\ Unlogged

SpecLastSeen == Init /\ [][NextLastSeen]_vars

(* ------------------------------------------------------- recomputation *)
\* One session whose creator d1 has the hook mounted: the destination is set
\* to one of two places and cleared, the hook is rendered with the session's
\* destination and a user location, and the routing service answers the
\* awaited call with a route to the destination asked for or with an error,
\* a route threshold's time apart.  Responses of the effect, computeRoute and
\* getETAs are recorded.
Destinations == {South, OnEquator}
Location(pos) == <<[latitude |-> pos[1], longitude |-> pos[2]]>>
UserLocations == {<<>>, Location(NullIsland), Location(North), Location(South)}

\* the route the routing service finds to a destination
routeTo(destLatitude, destLongitude) ==
    IF <<destLatitude, destLongitude>> = South THEN RouteA ELSE RouteB

effectArgs(userLocation, destination) ==
    [userLocation |-> userLocation, destination |-> destination,
     isComputing |-> hook.isComputing, cached |-> findRoute(1) # 0]

NextHook ==
    \/ \E dr \in Draws({"AAAAAA"}) :
          sessions = <<>> /\ createSession("d1", "n", dr) /\ Unlogged
    \/ \E dest \in Destinations :
          setWaypoint(1, dest[1], dest[2], Absent) /\ Unlogged
    \/ clearWaypoint(1) /\ Unlogged
    \/ \E userLocation \in UserLocations :
          /\ Joined(1, 1)
          /\ triggerEffect(1, 1, userLocation, sessionRow(1)[1].destination, TRUE)
          /\ Observed("useEffect",
                      effectArgs(userLocation, sessionRow(1)[1].destination),
                      Ok(triggerEffectResult(userLocation,
                                             sessionRow(1)[1].destination, TRUE)))
          /\ UNCHANGED <<geo, device>>
    \/ \E r \in {HttpOk(<<routeTo(c.destLatitude, c.destLongitude)>>) : c \in inflight}
                  \cup {HttpError} :
          /\ computeRouteResolved(r)
          /\ Observed("computeRoute", computeRouteArgs(hook.call[1], r),
                      computeRouteResult(r))
          /\ UNCHANGED <<geo, device>>
    \/ computeRouteRejected /\ Unobserved /\ UNCHANGED <<geo, device>>
    \/ getETAs(1) /\ Logged("getETAs", [sessionId |-> 1], getETAsResult(1))
    \/ Tick(RouteStep, MaxTicks * RouteStep) /\ Unlogged

SpecHook == Init /\ [][NextHook]_vars

(* ------------------------------------------------------------ geocoding *)
\* The proxy, long after the epoch, takes searches for two queries and
\* reverse lookups of one position, half a second apart at the closest.
GeoEpoch == 60 * 1000
GeoStep == 500

NextGeocoding ==
    \/ \E q \in {"cafe", "park"} : now > 0 /\ search(q) /\ Unobserved
    \/ now > 0 /\ reverse(North[1], North[2]) /\ Unobserved
    \/ \E k \in 1..MaxRequests : timerFired(k) /\ Unobserved
    \/ \E k \in 1..MaxRequests, ok \in BOOLEAN : responded(k, ok) /\ Unobserved
    \/ /\ Tick(IF now = 0 THEN GeoEpoch ELSE GeoStep,
               GeoEpoch + MaxTicks * NOMINATIM_RATE_MS)
       /\ Unlogged

SpecGeocoding == Init /\ [][NextGeocoding]_vars

(* --------------------------------------------------------------- expiry *)
\* d1 creates sessions and d2 joins them by code, in either case or with a
\* code no session has; participants leave, sessions are ended, routes are
\* computed, and the sweep runs, while the clock is read one session
\* lifetime apart, so that a session is met at its expiry time and after it.
\* Responses of joinSession and of the sweep are recorded.
ExpiryStep == SESSION_TTL_MS

joinArgs(code, deviceId) ==
    [code |-> code, sessionId |-> findSessionByCode(code), deviceId |-> deviceId]

NextExpiry ==
    \/ \E dr \in Draws({"AAAAAA", "BBBBBB"}) :
          createSession("d1", "n", dr) /\ Unlogged
    \/ \E c \in {"aaaaaa", "BBBBBB", "CCCCCC"} :
          /\ joinSession(c, "d2", "m")
          /\ Logged("joinSession", joinArgs(c, "d2"), joinSessionResult(c, "d2"))
    \/ \E s \in 1..MaxSessions, d \in Devices : leaveSession(s, d) /\ Unlogged
    \/ \E s \in 1..MaxSessions : endSession(s) /\ Unlogged
    \/ \E s \in 1..MaxSessions, p \in 1..MaxParticipants :
          /\ Joined(s, p)
          /\ computeRouteCall(s, p, North[1], North[2], South[1], South[2])
          /\ Unlogged
    \/ \E c \in inflight : computeRouteReturn(c, HttpOk(<<RouteA>>)) /\ Unlogged
    \/ /\ expireStaleSessions
       /\ Logged("expireStaleSessions", <<>>, expireStaleSessionsResult)
    \/ Tick(ExpiryStep, MaxTicks * ExpiryStep) /\ Unlogged

SpecExpiry == Init /\ [][NextExpiry]_vars

(* --------------------------------------------------------------- colors *)
\* One session, created by d1, that the next devices join in order, each
\* for the first time, that its participants join again and leave, a second
\* apart.
\* Responses of joinSession are recorded.
MaxJoins == 3
Joiners == <<"d1", "d2", "d3", "d4">>
JoinOrder == (1..MaxJoins) \cap DOMAIN Joiners

NextColors ==
    \/ \E dr \in Draws({"AAAAAA"}) :
          sessions = <<>> /\ createSession("d1", "n", dr) /\ Unlogged
    \/ \E d \in {participants[i].deviceId : i \in 1..Len(participants)}
                  \cup {Joiners[k] : k \in {nextPid} \cap JoinOrder} :
          /\ joinSessionUpTo("AAAAAA", d, "m", MaxJoins)
          /\ Logged("joinSession", joinArgs("AAAAAA", d), joinSessionResult("AAAAAA", d))
    \/ \E k \in JoinOrder : leaveSession(1, Joiners[k]) /\ Unlogged
    \/ Tick(LiveStep, MaxTicks * LiveStep) /\ Unlogged

SpecColors == Init /\ [][NextColors]_vars

(* ------------------------------------------------------- the sweep runs *)
\* d1 creates sessions, d2 joins them, participants leave and sessions are
\* ended, one session lifetime between clock readings.  The cron job keeps
\* running the sweep and time keeps passing up to the horizon: neither stays
\* possible for ever without happening.
NextSweep ==
    \/ \E dr \in Draws({"AAAAAA", "BBBBBB"}) :
          createSession("d1", "n", dr) /\ Unlogged
    \/ \E c \in {"aaaaaa", "BBBBBB"} : joinSession(c, "d2", "m") /\ Unlogged
    \/ \E s \in 1..MaxSessions, d \in Devices : leaveSession(s, d) /\ Unlogged
    \/ \E s \in 1..MaxSessions : endSession(s) /\ Unlogged
    \/ expireStaleSessions /\ Unlogged
    \/ Tick(ExpiryStep, MaxTicks * ExpiryStep) /\ Unlogged

SpecSweepFair ==
    /\ Init /\ [][NextSweep]_vars
    /\ WF_vars(expireStaleSessions /\ Unlogged)
    /\ WF_vars(Tick(ExpiryStep, MaxTicks * ExpiryStep) /\ Unlogged)

(* ------------------------------------------------------ staleness reads *)
\* One session with a destination that is set and cleared, whose creator d1
\* moves between two places 800 m apart, leaves, and has routes from North
\* computed and cached, a route threshold's time apart.  Responses of
\* checkRouteStale are recorded.
NextStale ==
    \/ \E dr \in Draws({"AAAAAA"}) :
          sessions = <<>> /\ createSession("d1", "n", dr) /\ Unlogged
    \/ leaveSession(1, "d1") /\ Unlogged
    \/ \E pos \in {North, South} :
          updateLocation(1, "d1", pos[1], pos[2], Absent, Absent, Absent) /\ Unlogged
    \/ setWaypoint(1, South[1], South[2], Absent) /\ Unlogged
    \/ clearWaypoint(1) /\ Unlogged
    \/ /\ Joined(1, 1)
       /\ computeRouteCall(1, 1, North[1], North[2], South[1], South[2])
       /\ Unlogged
    \/ \E c \in inflight : computeRouteReturn(c, HttpOk(<<RouteA>>)) /\ Unlogged
    \/ \E p \in 1..MaxParticipants :
          /\ checkRouteStale(p)
          /\ Logged("checkRouteStale", [participantId |-> p],
                    checkRouteStaleResult(p))
    \/ Tick(RouteStep, MaxTicks * RouteStep) /\ Unlogged

SpecStale == Init /\ [][NextStale]_vars

(* ------------------------------------------------------------- identity *)
\* One phone on which getDeviceId is called, also while earlier calls are
\* awaiting, AsyncStorage works or fails, the app is started again, and the
\* identifier is cleared while no call is awaiting.  ret holds the last
\* identifier that getDeviceId returned since the identifier was cleared.
Returned(id) == IF id = <<>> THEN UNCHANGED ret ELSE Observed("getDeviceId", <<>>, Ok(id[1]))

NextDevice ==
    \/ getDeviceId /\ Returned(getDeviceIdResult)
    \/ \E k \in 1..MaxCalls, threw \in BOOLEAN :
          /\ k <= Len(device.calls)
          /\ (threw => device.calls[k].pc \in {"getItem", "setItem"})
          /\ resume(k, threw)
          /\ Returned(resumeResult(k, threw))
    \/ device.calls = <<>> /\ clearDeviceId /\ Unobserved
    \/ restart /\ UNCHANGED ret

SpecDevice == Init /\ [][NextDevice]_vars

(* ------------------------------------------------------------ properties *)
LowAccuracyReason == "GPS accuracy too low"
TooFastReason == "Movement too fast (teleport rejected)"

sessionOpen(sessionId) ==
    /\ sessionRow(sessionId) # <<>>
    /\ sessionRow(sessionId)[1].status = "active"

rowsOf(table, participantId) ==
    {i \in 1..Len(table) : table[i].participantId = participantId}

OnePresenceRowPerParticipant ==
    \A i, j \in 1..Len(presence) :
        presence[i].participantId = presence[j].participantId => i = j

\* C1: in every reachable state the presence table holds at most one row per
\* participant, and an updateLocation step neither removes a participant's row
\* nor leaves the participant with a second one.
C1_SnapshotInvariant ==
    /\ []OnePresenceRowPerParticipant
    /\ [][ret'.op = "updateLocation" =>
           \A pid \in 1..MaxParticipants :
               /\ Cardinality(rowsOf(presence', pid)) >= Cardinality(rowsOf(presence, pid))
               /\ Cardinality(rowsOf(presence', pid)) <= 1]_vars

\* two participants each hold one row, one of them just rewritten by an
\* accepted update after time has passed
C1_Witness ==
    /\ ret.op = "updateLocation"
    /\ ret.res.kind = "ok"
    /\ ret.at > 0
    /\ Len(participants) = 2
    /\ Len(presence) = 2
    /\ \E i \in 1..Len(presence) :
         presence[i].updatedAt = ret.at /\ presence[i].latitude = North[1]

\* C2: an accepted updateLocation leaves the participant exactly one presence
\* row, whose latitude, longitude, heading, speed and accuracy are those of the
\* call (an omitted optional field is absent) and whose updatedAt is the time of
\* the call; a call that is not accepted leaves the presence table as it was.
C2_LastAcceptedUpdateWins ==
    [][ret'.op = "updateLocation" =>
        LET a == ret'.args
            p == findParticipant(a.deviceId, a.sessionId)
        IN IF ret'.res.kind = "ok"
           THEN LET rows == rowsOf(presence', participants[p]._id)
                IN /\ Cardinality(rows) = 1
                   /\ \A i \in rows :
                        /\ presence'[i].latitude = a.latitude
                        /\ presence'[i].longitude = a.longitude
                        /\ presence'[i].heading = a.heading
                        /\ presence'[i].speed = a.speed
                        /\ presence'[i].accuracy = a.accuracy
                        /\ presence'[i].updatedAt = now
           ELSE presence' = presence]_vars

\* an accepted update that omits heading, speed and accuracy, made after time
\* has passed, has left a row without them
C2_Witness ==
    /\ ret.op = "updateLocation"
    /\ ret.res.kind = "ok"
    /\ ret.at > 0
    /\ ret.args.heading = Absent /\ ret.args.accuracy = Absent
    /\ ret.args.latitude # 0
    /\ \E i \in 1..Len(presence) :
         /\ presence[i].heading = Absent /\ presence[i].accuracy = Absent
         /\ presence[i].latitude = ret.args.latitude
         /\ presence[i].updatedAt = ret.at

GatedWrites == {"updateLocation", "reportDelay", "clearDelay", "joinSession",
                "setWaypoint", "clearWaypoint", "computeRoute"}

sessionClosed(sessionId) ==
    \/ ~sessionOpen(sessionId)
    \/ sessionRow(sessionId)[1].expiresAt < now

\* C3: updateLocation, reportDelay, clearDelay, joinSession, setWaypoint,
\* clearWaypoint and the cache write of computeRoute, made against a session
\* that is not active or whose expiresAt is earlier than now, do not succeed
\* and leave every table unchanged.
C3_SessionGate ==
    [][(ret'.op \in GatedWrites /\ sessionClosed(ret'.args.sessionId))
          => (ret'.res.kind # "ok" /\ UNCHANGED tables)]_vars

rowsOfSession(table, sessionId) ==
    SelectRows(table, {i \in 1..Len(table) : table[i].sessionId = sessionId})

\* C5: right after a successful setWaypoint or clearWaypoint on a session the
\* routes table has no row of that session, whatever the rows' age or origin,
\* and the rows of every other session are as they were.
C5_DestinationChangeCascade ==
    [][(ret'.op \in {"setWaypoint", "clearWaypoint"} /\ ret'.res.kind = "ok") =>
        /\ rowsOfSession(routes', ret'.args.sessionId) = <<>>
        /\ \A other \in (1..MaxSessions) \ {ret'.args.sessionId} :
               rowsOfSession(routes', other) = rowsOfSession(routes, other)
        /\ Len(routes') = Len(routes) - Len(rowsOfSession(routes, ret'.args.sessionId))
       ]_vars

\* a destination change has emptied its session's cache, after time has
\* passed, and the other session still has its route
C5_Witness ==
    /\ ret.op \in {"setWaypoint", "clearWaypoint"}
    /\ ret.res.kind = "ok"
    /\ ret.at > 0
    /\ rowsOfSession(routes, ret.args.sessionId) = <<>>
    /\ \E i \in 1..Len(routes) :
         routes[i].computedAt < ret.at /\ routes[i].sessionId # ret.args.sessionId
    /\ \E c \in inflight : c.sessionId = ret.args.sessionId

OneRouteRowPerParticipant ==
    \A i, j \in 1..Len(routes) :
        routes[i].participantId = routes[j].participantId => i = j

\* C6: in every reachable state the routes table holds at most one row per
\* participant, and right after a successful computeRoute the participant's
\* row carries the geometry, distance and duration the call returned (those of
\* the first route of the response), the origin of the request, and computedAt
\* equal to the time of the cache write.
C6_RouteCacheUpsert ==
    /\ []OneRouteRowPerParticipant
    /\ [][(ret'.op = "computeRoute" /\ ret'.res.kind = "ok") =>
           LET call == ret'.args.call
               first == ret'.args.response[1].routes[1]
               rows == rowsOf(routes', call.participantId)
           IN /\ ret'.res.value = [polyline |-> JSONstringify(first.geometry),
                                   distanceMeters |-> first.distance,
                                   etaSeconds |-> first.duration]
              /\ Cardinality(rows) = 1
              /\ \A i \in rows :
                   /\ routes'[i].polyline = ret'.res.value.polyline
                   /\ routes'[i].distanceMeters = ret'.res.value.distanceMeters
                   /\ routes'[i].etaSeconds = ret'.res.value.etaSeconds
                   /\ routes'[i].originLatitude = call.originLatitude
                   /\ routes'[i].originLongitude = call.originLongitude
                   /\ routes'[i].computedAt = now]_vars

\* a computeRoute has overwritten an older row of its participant with a new
\* origin while another computation was outstanding
C6_Witness ==
    /\ ret.op = "computeRoute"
    /\ ret.res.kind = "ok"
    /\ ret.at > 0
    /\ inflight # {}
    /\ Len(routes) = 2
    /\ \E i \in 1..Len(routes) :
         /\ routes[i].participantId = ret.args.call.participantId
         /\ routes[i].computedAt = ret.at
         /\ routes[i].originLatitude = ret.args.call.originLatitude
         /\ i < Len(routes)

\* C4: when the routing call of computeRoute fails (a response that is not a
\* success, a fetch that threw, or an empty route list) computeRoute reports
\* failure, the routes table is as it was, and getETAs returns what it
\* returned before, a previously cached route included.
C4_FailureLeavesCache ==
    [][(/\ ret'.op = "computeRoute"
        /\ \/ ret'.args.response = FetchThrew
           \/ ~ret'.args.response[1].ok
           \/ ret'.args.response[1].routes = <<>>)
          => /\ ret'.res.kind = "failed"
             /\ routes' = routes
             /\ \A s \in 1..MaxSessions : getETAsResult(s)' = getETAsResult(s)
       ]_vars

\* a computeRoute has failed on an error response that carried a body while
\* the participant's earlier route is cached and served
C4_Witness ==
    /\ ret.op = "computeRoute"
    /\ ret.res.kind = "failed"
    /\ ret.args.response = HttpErrorWithBody
    /\ ret.at > 0
    /\ rowsOf(routes, ret.args.call.participantId) # {}
    /\ getETAsResult(ret.args.call.sessionId).value.etas # <<>>

\* C7: getETAs of a session with a destination returns one entry per cached
\* route of the session, in order, with the route's geometry, distance and
\* duration, and isStale true exactly when now - computedAt > 5 minutes or a
\* presence row of the participant lies more than 500 m from the route's
\* origin; without a destination it returns none; and the read changes no table.
C7_StalenessFlag ==
    /\ [](ret.op = "getETAs" =>
            LET v == ret.res.value
                s == sessionRow(ret.args.sessionId)
                rows == rowsOfSession(routes, ret.args.sessionId)
            IN IF s = <<>> \/ s[1].destination = <<>>
               THEN ~v.hasDestination /\ v.etas = <<>>
               ELSE /\ v.hasDestination
                    /\ Len(v.etas) = Len(rows)
                    /\ \A i \in 1..Len(rows) :
                         LET r == rows[i]
                             at == rowsOf(presence, r.participantId)
                         IN /\ v.etas[i].participantId = r.participantId
                            /\ v.etas[i].polyline = r.polyline
                            /\ v.etas[i].distanceMeters = r.distanceMeters
                            /\ v.etas[i].etaSeconds = r.etaSeconds
                            /\ v.etas[i].isStale <=>
                                 \/ ret.at - r.computedAt > 5 * 60 * 1000
                                 \/ \E e \in at :
                                      haversineDistance(r.originLatitude,
                                                        r.originLongitude,
                                                        presence[e].latitude,
                                                        presence[e].longitude) > 500)
    /\ [][ret'.op = "getETAs" => UNCHANGED <<tables, inflight>>]_vars

\* a route exactly 5 minutes old whose participant is exactly 500 m from its
\* origin has been returned as not stale
C7_Witness ==
    /\ ret.op = "getETAs"
    /\ \E i \in 1..Len(ret.res.value.etas) :
         /\ ~ret.res.value.etas[i].isStale
         /\ ret.at - ret.res.value.etas[i].computedAt = 5 * 60 * 1000
    /\ \E i \in 1..Len(routes), e \in 1..Len(presence) :
         /\ presence[e].participantId = routes[i].participantId
         /\ haversineDistance(routes[i].originLatitude, routes[i].originLongitude,
                              presence[e].latitude, presence[e].longitude) = 500

\* C8: when updateLocation reaches the speed check with a prior row that is not
\* at (0,0) and time has passed since its updatedAt, the update is rejected as
\* too fast if distance/elapsed exceeds 50 m/s and accepted otherwise.
C8_SpeedGuard ==
    [][ret'.op = "updateLocation" =>
        LET a == ret'.args
            p == findParticipant(a.deviceId, a.sessionId)
            e == IF p = 0 THEN 0 ELSE findPresence(participants[p]._id)
        IN (/\ sessionOpen(a.sessionId)
            /\ p # 0
            /\ ~(a.accuracy # <<>> /\ a.accuracy[1] > 100)
            /\ e # 0
            /\ (presence[e].latitude # 0 \/ presence[e].longitude # 0)
            /\ now - presence[e].updatedAt > 0)
           => IF haversineDistance(presence[e].latitude, presence[e].longitude,
                                   a.latitude, a.longitude) * 1000
                   > 50 * (now - presence[e].updatedAt)
              THEN ret'.res = Rejected(TooFastReason)
              ELSE ret'.res.kind = "ok"]_vars

\* C9: an updateLocation that reaches the accuracy gate (active session,
\* registered device) is rejected as low-accuracy when its accuracy is above
\* 100; with accuracy exactly 100, or none, no call is rejected as low-accuracy.
C9_AccuracyBoundary ==
    ret.op = "updateLocation" =>
        LET acc == ret.args.accuracy
        IN /\ (acc = <<100>> \/ acc = Absent) => ret.res.reason # LowAccuracyReason
           /\ (/\ acc # Absent /\ acc[1] > 100
               /\ sessionOpen(ret.args.sessionId)
               /\ findParticipant(ret.args.deviceId, ret.args.sessionId) # 0)
              => ret.res = Rejected(LowAccuracyReason)

\* an update with accuracy exactly 100 has been accepted and stored
C9_Witness ==
    /\ ret.op = "updateLocation"
    /\ ret.args.accuracy = <<100>>
    /\ ret.res.kind = "ok"
    /\ \E i \in 1..Len(presence) : presence[i].accuracy = <<100>>

\* C10: updateLocation answers with the first check that fails, in the order
\* session active, device registered, accuracy, speed: the session error
\* whatever else holds; else the not-in-session error whatever the accuracy;
\* else the low-accuracy rejection however fast the move; the too-fast
\* rejection only when the first three pass, and then whenever the move from
\* a prior row off the equator is too fast.
C10_PreconditionOrder ==
    [][ret'.op = "updateLocation" =>
        LET a == ret'.args
            res == ret'.res
            p == findParticipant(a.deviceId, a.sessionId)
            e == IF p = 0 THEN 0 ELSE findPresence(participants[p]._id)
            low == a.accuracy # <<>> /\ a.accuracy[1] > 100
            fast == /\ e # 0
                    /\ now - presence[e].updatedAt > 0
                    /\ haversineDistance(presence[e].latitude, presence[e].longitude,
                                         a.latitude, a.longitude) * 1000
                         > 50 * (now - presence[e].updatedAt)
        IN IF ~sessionOpen(a.sessionId) THEN res = Error("Session not active")
           ELSE IF p = 0 THEN res = Error("Not in session")
           ELSE IF low THEN res = Rejected(LowAccuracyReason)
           ELSE /\ res.kind \in {"ok", "rejected"}
                /\ res.kind = "rejected" => res.reason = TooFastReason /\ fast
                /\ (fast /\ presence[e].latitude # 0) => res = Rejected(TooFastReason)
       ]_vars

\* an update both low-accuracy and impossibly fast was rejected as low-accuracy
C10_Witness ==
    /\ ret.op = "updateLocation"
    /\ ret.res = Rejected(LowAccuracyReason)
    /\ \E i \in 1..Len(presence) :
         /\ presence[i].latitude # 0
         /\ ret.at > presence[i].updatedAt
         /\ haversineDistance(presence[i].latitude, presence[i].longitude,
                              ret.args.latitude, ret.args.longitude) * 1000
              > 50 * (ret.at - presence[i].updatedAt)

\* C11: an updateLocation turned away for low accuracy or impossible speed
\* returns accepted:false with that reason, it does not throw, and the
\* presence table, the participant's row included, is as it was before.
C11_SoftRejection ==
    [][ret'.op = "updateLocation" =>
        LET a == ret'.args
            res == ret'.res
            p == findParticipant(a.deviceId, a.sessionId)
        IN /\ (/\ sessionOpen(a.sessionId)
               /\ p # 0
               /\ a.accuracy # <<>> /\ a.accuracy[1] > 100)
              => res.kind = "rejected" /\ res.reason = LowAccuracyReason
           /\ res.reason \in {LowAccuracyReason, TooFastReason}
              => res.kind = "rejected" /\ presence' = presence
           /\ res.kind = "rejected"
              => res.reason \in {LowAccuracyReason, TooFastReason}
       ]_vars

\* a too-fast update was turned away while the participant's row, carrying a
\* delay annotation, still shows the earlier position and time
C11_Witness ==
    /\ ret.op = "updateLocation"
    /\ ret.res.kind = "rejected"
    /\ ret.res.reason = TooFastReason
    /\ \E i \in 1..Len(presence) :
         /\ presence[i].delayStatus # <<>>
         /\ presence[i].updatedAt < ret.at
         /\ <<presence[i].latitude, presence[i].longitude>>
              # <<ret.args.latitude, ret.args.longitude>>

\* C12: every participant getLiveParticipants returns is shown with a delay
\* exactly when its presence row stores an annotation with now - reportedAt
\* <= 15 minutes, and then with the stored type and minutes; neither the read
\* nor the passage of time changes the presence table; and a stored
\* annotation changes only in a reportDelay or a clearDelay.
C12_DelayExpiryAtRead ==
    /\ [](ret.op = "getLiveParticipants" =>
            \A k \in 1..Len(ret.res.value) :
               LET v == ret.res.value[k]
                   fresh == {e \in rowsOf(presence, v.id) :
                               /\ presence[e].delayStatus # <<>>
                               /\ ret.at - presence[e].delayStatus[1].reportedAt
                                    <= 15 * 60 * 1000}
               IN /\ v.delay # <<>> <=> fresh # {}
                  /\ v.delay # <<>> =>
                       \E e \in fresh :
                          /\ v.delay[1].type = presence[e].delayStatus[1].type
                          /\ v.delay[1].minutes = presence[e].delayStatus[1].delayMinutes)
    /\ [][(ret'.op = "getLiveParticipants" \/ now' # now) => presence' = presence]_vars
    /\ [][(/\ Len(presence') = Len(presence)
           /\ \E i \in 1..Len(presence) :
                 presence'[i].delayStatus # presence[i].delayStatus)
          => ret'.op \in {"reportDelay", "clearDelay"}]_vars

\* a participant is returned without a delay 16 minutes after reporting one,
\* the annotation still stored as reported
C12_Witness ==
    /\ ret.op = "getLiveParticipants"
    /\ \E k \in 1..Len(ret.res.value) :
         /\ ret.res.value[k].delay = <<>>
         /\ \E e \in rowsOf(presence, ret.res.value[k].id) :
              /\ presence[e].delayStatus # <<>>
              /\ ret.at - presence[e].delayStatus[1].reportedAt = 16 * 60 * 1000

C14_ClearDelayIdempotent ==
    [][ret'.op = "clearDelay" =>
        LET a == ret'.args
            mine == {e \in 1..Len(presence) :
                       \E i \in 1..Len(participants) :
                          /\ participants[i].deviceId = a.deviceId
                          /\ participants[i].sessionId = a.sessionId
                          /\ presence[e].participantId = participants[i]._id}
        IN /\ mine # {} =>
                /\ ret'.res.kind = "ok"
                /\ presence' = [e \in 1..Len(presence) |->
                                  IF e \in mine
                                  THEN [presence[e] EXCEPT !.delayStatus = <<>>]
                                  ELSE presence[e]]
                /\ UNCHANGED <<sessions, participants, routes>>
           /\ a.again => ret'.res.kind = "ok" /\ UNCHANGED tables
       ]_vars

\* clearDelay has succeeded twice in a row on a row that keeps its position,
\* heading and time
C14_Witness ==
    /\ ret.op = "clearDelay"
    /\ ret.args.again
    /\ ret.res.kind = "ok"
    /\ \E e \in 1..Len(presence) :
         /\ presence[e].delayStatus = <<>>
         /\ presence[e].latitude # 0
         /\ presence[e].heading = <<90>>

\* C15: reportDelay by a registered participant with a presence row succeeds
\* and replaces the row's delay annotation by {type, delayMinutes, reportedAt =
\* now}, changing no other presence field, no participant, no route and no
\* session; by an unregistered device it fails as not in session, and by a
\* participant without a presence row as no presence record, changing nothing.
C15_ReportDelay ==
    [][ret'.op = "reportDelay" =>
        LET a == ret'.args
            me == {i \in 1..Len(participants) :
                     /\ participants[i].deviceId = a.deviceId
                     /\ participants[i].sessionId = a.sessionId}
            mine == {e \in 1..Len(presence) :
                       \E i \in me : presence[e].participantId = participants[i]._id}
        IN IF me = {}
           THEN /\ ret'.res.kind = "error" /\ ret'.res.reason = "Not in session"
                /\ UNCHANGED tables
           ELSE IF mine = {}
           THEN /\ ret'.res.kind = "error" /\ ret'.res.reason = "No presence record"
                /\ UNCHANGED tables
           ELSE /\ ret'.res.kind = "ok"
                /\ presence' =
                     [e \in 1..Len(presence) |->
                        IF e \in mine
                        THEN [presence[e] EXCEPT !.delayStatus =
                                <<[type |-> a.type, delayMinutes |-> a.delayMinutes,
                                   reportedAt |-> now]>>]
                        ELSE presence[e]]
                /\ UNCHANGED <<sessions, participants, routes>>
       ]_vars

\* a delay reported once the clock has advanced is stored with its type,
\* minutes and time on a row that keeps its position and heading
C15_Witness ==
    /\ ret.op = "reportDelay"
    /\ ret.res.kind = "ok"
    /\ ret.at > 0
    /\ \E e \in 1..Len(presence) :
         /\ presence[e].delayStatus =
              <<[type |-> ret.args.type, delayMinutes |-> ret.args.delayMinutes,
                 reportedAt |-> ret.at]>>
         /\ presence[e].updatedAt < ret.at
         /\ presence[e].heading = <<90>>

C17_DelayNonInterference ==
    [][ret'.op \in {"reportDelay", "clearDelay"} =>
        /\ routes' = routes
        /\ inflight' = inflight
        /\ \A s \in 1..MaxSessions : getETAsResult(s)' = getETAsResult(s)
        /\ \A p \in 1..MaxParticipants :
              checkRouteStaleResult(p)' = checkRouteStaleResult(p)
        /\ \A p \in 1..MaxParticipants :
              cacheRoute(1, p, JSONstringify(RouteB.geometry), RouteB.distance,
                         RouteB.duration, North[1], North[2])'
                = cacheRoute(1, p, JSONstringify(RouteB.geometry), RouteB.distance,
                             RouteB.duration, North[1], North[2])
       ]_vars

\* a delay has been reported by a participant whose cached route is being
\* served by getETAs
C17_Witness ==
    /\ ret.op = "reportDelay"
    /\ ret.res.kind = "ok"
    /\ \E e \in 1..Len(presence) :
         /\ presence[e].delayStatus # <<>>
         /\ rowsOf(routes, presence[e].participantId) # {}
         /\ \E k \in 1..Len(getETAsResult(presence[e].sessionId).value.etas) :
              getETAsResult(presence[e].sessionId).value.etas[k].participantId
                = presence[e].participantId

\* C18: every presence row and every route row refers to a participant row
\* that exists, so that after leaveSession or expireStaleSessions has removed
\* a participant no presence or route row of it is stored, also when a
\* computeRoute for it was outstanding and its cacheRoute commits afterwards.
C18_CascadeOnRemoval ==
    /\ \A e \in 1..Len(presence) :
          \E i \in 1..Len(participants) :
             participants[i]._id = presence[e].participantId
    /\ \A r \in 1..Len(routes) :
          \E i \in 1..Len(participants) :
             participants[i]._id = routes[r].participantId

\* C19: no two participant rows share a device and a session; and a
\* joinSession, into a session that admits joins, by a device that is in it
\* already returns that participant's id with alreadyJoined true and changes
\* no table.
C19_OneParticipantPerDevice ==
    /\ [](\A i, j \in 1..Len(participants) :
             (/\ participants[i].deviceId = participants[j].deviceId
              /\ participants[i].sessionId = participants[j].sessionId) => i = j)
    /\ [][ret'.op = "joinSession" =>
            \A i \in 1..Len(participants) :
               (/\ participants[i].deviceId = ret'.args.deviceId
                /\ participants[i].sessionId = ret'.args.sessionId
                /\ ~sessionClosed(ret'.args.sessionId))
               => /\ ret'.res.kind = "ok"
                  /\ ret'.res.value.alreadyJoined
                  /\ ret'.res.value.participantId = participants[i]._id
                  /\ ret'.res.value.sessionId = participants[i].sessionId
                  /\ UNCHANGED tables
       ]_vars

\* the second device has joined again and got back its own participant id,
\* the tables still holding two participants and two presence rows
C19_Witness ==
    /\ ret.op = "joinSession"
    /\ ret.res.kind = "ok"
    /\ ret.res.value.alreadyJoined
    /\ Len(participants) = 2
    /\ Len(presence) = 2
    /\ participants[1].sessionId = participants[2].sessionId
    /\ \E i \in 1..Len(participants) :
         /\ participants[i]._id = ret.res.value.participantId
         /\ participants[i].deviceId = "d2"
         /\ ret.args.deviceId = "d2"

\* C20: a leaveSession that removes the last participant of a session leaves
\* the session's status ended; one that removes a participant while another
\* remains leaves the status, and the whole sessions table, as it was.
C20_LastLeaveEndsSession ==
    [][ret'.op = "leaveSession" =>
        LET a == ret'.args
            me == {i \in 1..Len(participants) :
                     /\ participants[i].deviceId = a.deviceId
                     /\ participants[i].sessionId = a.sessionId}
            others == {i \in 1..Len(participants) :
                         /\ participants[i].deviceId # a.deviceId
                         /\ participants[i].sessionId = a.sessionId}
        IN me # {} =>
             /\ \A i \in me : \A j \in 1..Len(participants') :
                   participants'[j]._id # participants[i]._id
             /\ IF others = {}
                THEN /\ sessions'[a.sessionId].status = "ended"
                     /\ \A s \in 1..Len(sessions) :
                           s # a.sessionId => sessions'[s] = sessions[s]
                ELSE sessions' = sessions
       ]_vars

\* both participants of a session have left, one after the other, and the
\* session is ended
C20_Witness ==
    /\ ret.op = "leaveSession"
    /\ ret.res.kind = "ok"
    /\ Len(sessions) = 1
    /\ nextPid > MaxParticipants
    /\ participants = <<>>
    /\ sessions[ret.args.sessionId].status = "ended"

\* C22: every updateLocation that passes the session and participant checks
\* leaves the participant's lastSeenAt equal to the current time, whether the
\* position is accepted or turned away for low accuracy or impossible speed.
C22_LastSeenOnEveryUpdate ==
    [][ret'.op = "updateLocation" =>
        \A i \in 1..Len(participants) :
           (/\ sessionOpen(ret'.args.sessionId)
            /\ participants[i].deviceId = ret'.args.deviceId
            /\ participants[i].sessionId = ret'.args.sessionId)
           => /\ Len(participants') = Len(participants)
              /\ participants'[i].lastSeenAt = now
       ]_vars

\* C23: for a participant whose presence row holds a reported position (0,0)
\* written at T, an updateLocation at T + 1 second to a position 51 m away is
\* rejected for impossible speed and one to a position 49 m away is accepted.
C23_SpeedGuardAtOrigin ==
    [][ret'.op = "updateLocation" =>
        \A i \in 1..Len(participants), e \in 1..Len(presence) :
           (/\ sessionOpen(ret'.args.sessionId)
            /\ participants[i].deviceId = ret'.args.deviceId
            /\ participants[i].sessionId = ret'.args.sessionId
            /\ presence[e].participantId = participants[i]._id
            /\ presence[e].latitude = 0 /\ presence[e].longitude = 0
            /\ presence[e].heading # <<>>
            /\ now = presence[e].updatedAt + 1000)
           => /\ <<ret'.args.latitude, ret'.args.longitude>> = Metres51
                 => /\ ret'.res.kind = "rejected"
                    /\ ret'.res.reason = TooFastReason
              /\ <<ret'.args.latitude, ret'.args.longitude>> = Metres49
                 => ret'.res.kind = "ok"
       ]_vars

\* C28: an updateLocation by a participant whose presence row is still the one
\* written when it created or joined the session, as it is at the
\* participant's first submission, is not rejected for impossible speed,
\* wherever it reports to be and however soon after joining.
C28_FirstSubmissionNoBaseline ==
    [][ret'.op = "updateLocation" =>
        \A i \in 1..Len(participants) :
           (/\ participants[i].deviceId = ret'.args.deviceId
            /\ participants[i].sessionId = ret'.args.sessionId
            /\ participants[i].lastSeenAt = participants[i].joinedAt
            /\ \A e \in rowsOf(presence, participants[i]._id) :
                  presence[e] = [initialPresence(participants[i]._id,
                                                 participants[i].sessionId)
                                   EXCEPT !.updatedAt = participants[i].joinedAt])
           => ret'.res.reason # TooFastReason
       ]_vars

\* a position 300 m from (0,0) was accepted one second after the session
\* was created
C28_Witness ==
    /\ ret.op = "updateLocation"
    /\ ret.res.kind = "ok"
    /\ <<ret.args.latitude, ret.args.longitude>> = OnEquator
    /\ \E i \in 1..Len(participants) :
         /\ participants[i].deviceId = ret.args.deviceId
         /\ participants[i].joinedAt + 1000 = ret.at
         /\ participants[i].lastSeenAt = ret.at
         /\ \E e \in rowsOf(presence, participants[i]._id) :
              presence[e].longitude = 300 /\ presence[e].updatedAt = ret.at

\* C24: session codes are unique: no two session rows, active or ended, hold
\* the same code, whatever codes the generator draws.
C24_UniqueCodes ==
    \A i, j \in 1..Len(sessions) :
       i # j => sessions[i].code # sessions[j].code

\* C30: a presence row for a participant is created only by that
\* participant's accepted updateLocation: every step that adds a presence row
\* is an accepted updateLocation, so that creating or joining a session adds
\* none.
C30_PresenceRowOnlyByUpdate ==
    [][Len(presence') > Len(presence) =>
          ret'.op = "updateLocation" /\ ret'.res.kind = "ok"]_vars

\* C29: an accepted updateLocation sets the participant's lastSeenAt to the
\* current time; no other step changes the lastSeenAt of a participant that
\* has joined, be it a reportDelay, clearDelay, setWaypoint, clearWaypoint,
\* computeRoute or a read; and so the live view leaves out every participant
\* whose last accepted position update is 60 seconds old or older, those who
\* have reported a delay since included.
C29_LastSeenFrame ==
    /\ [][/\ Len(participants') >= Len(participants)
          /\ \A i \in 1..Len(participants) :
               LET mine == /\ ret'.op = "updateLocation"
                           /\ ret'.res.kind = "ok"
                           /\ participants[i].deviceId = ret'.args.deviceId
                           /\ participants[i].sessionId = ret'.args.sessionId
               IN /\ mine => participants'[i].lastSeenAt = now
                  /\ ~mine => participants'[i].lastSeenAt = participants[i].lastSeenAt
         ]_vars
    /\ [](ret.op = "getLiveParticipants" =>
            \A i \in 1..Len(participants), k \in 1..Len(ret.res.value) :
               ret.at - participants[i].lastSeenAt >= 60 * 1000
               => ret.res.value[k].id # participants[i]._id)

\* the live view, read 60 seconds after d2 joined, holds d1 alone: d2 has
\* sent no position, and the delay it reported a second ago is still stored
C29_Witness ==
    /\ ret.op = "getLiveParticipants"
    /\ ret.at = 60 * 1000
    /\ Len(ret.res.value) = 1
    /\ \E i \in 1..Len(participants), e \in 1..Len(presence) :
         /\ participants[i].deviceId = "d2"
         /\ participants[i].lastSeenAt = 0
         /\ participants[i]._id # ret.res.value[1].id
         /\ presence[e].participantId = participants[i]._id
         /\ presence[e].delayStatus # <<>>
         /\ presence[e].delayStatus[1].reportedAt = 59 * 1000

\* the triggers of the hook that hold for the props of a render
holding(userLocation, destination) ==
    IF noRouteYet THEN {"first"}
    ELSE {t \in {"destination", "drift", "age"} :
            \/ t = "destination" /\ destinationChanged(destination)
            \/ t = "drift" /\ drifted(userLocation)
            \/ t = "age" /\ routeStale}

\* C21: the hook never has more than one computeRoute call in flight, and
\* an evaluation of its triggers with a user location away from (0,0) and a
\* destination issues exactly one call when no call is in flight and at least
\* one trigger holds, however many hold at once, and none otherwise.
C21_SingleRecomputation ==
    /\ [](Cardinality(inflight) <= 1)
    /\ [][ret'.op = "useEffect" =>
            LET a == ret'.args
                due == /\ a.userLocation # <<>> /\ a.destination # <<>>
                       /\ ~atNullIsland(a.userLocation)
                       /\ holding(a.userLocation, a.destination) # {}
                       /\ inflight = {}
            IN IF due
               THEN inflight' = {hookCall(1, 1, a.userLocation, a.destination)}
               ELSE inflight' = inflight
         ]_vars

\* one call is in flight, issued by an evaluation in which the destination
\* had changed, the user had drifted 800 m and the last route was 10 minutes
\* old
C21_Witness ==
    /\ ret.op = "useEffect"
    /\ ret.at = now
    /\ hook.lastComputeRef # <<>>
    /\ ret.args.userLocation # <<>> /\ ret.args.destination # <<>>
    /\ holding(ret.args.userLocation, ret.args.destination)
         = {"destination", "drift", "age"}
    /\ ~ret.args.isComputing
    /\ hook.isComputing
    /\ inflight = {hookCall(1, 1, ret.args.userLocation, ret.args.destination)}

\* C26: a cached route that getETAs returns with isStale false is a route to
\* the session's current destination, also when setWaypoint commits between
\* a computeRoute's external call and its cacheRoute step.
C26_RouteForCurrentDestination ==
    (ret.op = "getETAs" /\ ret.res.value.hasDestination) =>
        \A k \in 1..Len(ret.res.value.etas) :
           LET eta == ret.res.value.etas[k]
               dest == ret.res.value.destination[1]
           IN \/ eta.isStale
              \/ eta.polyline
                   = JSONstringify(routeTo(dest.latitude, dest.longitude).geometry)

\* C27: an evaluation of the hook's triggers with a user location away from
\* (0,0) and a destination, with no computation in flight and no cached
\* route row for the participant, issues a computeRoute call.
C27_MissingRouteTrigger ==
    [][(/\ ret'.op = "useEffect"
        /\ ret'.args.userLocation # <<>>
        /\ ~atNullIsland(ret'.args.userLocation)
        /\ ret'.args.destination # <<>>
        /\ ~hook.isComputing /\ inflight = {}
        /\ findRoute(1) = 0)
       => inflight' = {hookCall(1, 1, ret'.args.userLocation,
                                ret'.args.destination)}
      ]_vars

\* C25: any two requests that rateLimitedFetch has sent to Nominatim were
\* sent at least 1000 ms apart, however the /search and /reverse requests
\* that miss the cache interleave.
C25_UpstreamRateLimit ==
    \A i, j \in 1..Len(geo.sent) :
       i < j => geo.sent[j].at - geo.sent[i].at >= 1000

\* C31: right after expireStaleSessions has run at time now, no active
\* session has expiresAt < now, no participant, presence or route row of a
\* session it ended is stored, and every session with expiresAt >= now is
\* unchanged together with its rows.
C31_SweepPostcondition ==
    [][ret'.op = "expireStaleSessions" =>
        \A s \in 1..Len(sessions) :
           /\ sessions'[s].status = "active" => ~(sessions'[s].expiresAt < now)
           /\ (sessions[s].status = "active" /\ sessions'[s].status = "ended")
              => /\ rowsOfSession(participants', s) = <<>>
                 /\ rowsOfSession(presence', s) = <<>>
                 /\ rowsOfSession(routes', s) = <<>>
           /\ sessions[s].expiresAt >= now
              => /\ sessions'[s] = sessions[s]
                 /\ rowsOfSession(participants', s) = rowsOfSession(participants, s)
                 /\ rowsOfSession(presence', s) = rowsOfSession(presence, s)
                 /\ rowsOfSession(routes', s) = rowsOfSession(routes, s)
       ]_vars

\* C32: joinSession fails and changes no table when no session has the code,
\* when the session with the code is ended, and when now > expiresAt; it
\* succeeds for an active session at now = expiresAt, and at that moment
\* expireStaleSessions leaves the session active.
C32_JoinGate ==
    /\ [][ret'.op = "joinSession" =>
            LET code == ret'.args.code
                upper == IF code = "aaaaaa" THEN "AAAAAA" ELSE code
                found == {i \in 1..Len(sessions) : sessions[i].code = upper}
                s == CHOOSE i \in found : \A j \in found : i <= j
            IN IF found = {}
               THEN ret'.res.kind = "error" /\ UNCHANGED tables
               ELSE IF sessions[s].status = "ended" \/ now > sessions[s].expiresAt
               THEN ret'.res.kind = "error" /\ UNCHANGED tables
               ELSE ret'.res.kind = "ok" /\ ret'.res.value.sessionId = s
         ]_vars
    /\ [][ret'.op = "expireStaleSessions" =>
            \A s \in 1..Len(sessions) :
               sessions[s].expiresAt = now => sessions'[s] = sessions[s]
         ]_vars

\* d2 has joined an active session at the very time of its expiresAt
C32_Witness ==
    /\ ret.op = "joinSession"
    /\ ret.res.kind = "ok"
    /\ ~ret.res.value.alreadyJoined
    /\ ret.at = sessions[ret.res.value.sessionId].expiresAt
    /\ sessions[ret.res.value.sessionId].status = "active"
    /\ \E i \in 1..Len(participants) :
         /\ participants[i]._id = ret.res.value.participantId
         /\ participants[i].deviceId = "d2"
         /\ participants[i].joinedAt = ret.at

\* C33: in a session whose participants joined one after the other, the
\* creator first, the n-th to join (the creator being n = 0) holds the color
\* palette[n mod 8], whatever joins and leaves came between.  Participant
\* ids are given out in order, so in the one session here n is _id - 1.
C33_ColorByJoinOrder ==
    \A i \in 1..Len(participants) :
       participants[i].color = COLORS[((participants[i]._id - 1) % 8) + 1]

\* C34: a session whose status is ended stays ended whatever operation runs,
\* and the expiresAt of every session is its createdAt plus 4 hours and is
\* never changed.
C34_EndedIsAbsorbing ==
    /\ [](\A s \in 1..Len(sessions) :
             sessions[s].expiresAt = sessions[s].createdAt + 4 * 60 * 60 * 1000)
    /\ [][/\ Len(sessions') >= Len(sessions)
          /\ \A s \in 1..Len(sessions) :
               /\ sessions'[s].expiresAt = sessions[s].expiresAt
               /\ sessions'[s].createdAt = sessions[s].createdAt
               /\ sessions[s].status = "ended" => sessions'[s].status = "ended"
         ]_vars

\* the destination of a session that ended hours ago has been cleared, with
\* success, and the session is still ended
C34_Witness ==
    /\ ret.op = "clearWaypoint"
    /\ ret.res.kind = "ok"
    /\ sessions[ret.args.sessionId].status = "ended"
    /\ ret.at > sessions[ret.args.sessionId].expiresAt

\* C35: with the sweep kept running, every session whose status has become
\* ended, by the last leave, by endSession or by the sweep, is eventually
\* without participant, presence and route rows.
C35_EndedEventuallyEmpty ==
    \A s \in 1..MaxSessions :
       (s <= Len(sessions) /\ sessions[s].status = "ended")
       ~> (/\ rowsOfSession(participants, s) = <<>>
           /\ rowsOfSession(presence, s) = <<>>
           /\ rowsOfSession(routes, s) = <<>>)

\* C36: for a participant of a session that has a destination,
\* checkRouteStale answers needsCompute true exactly when getETAs of the
\* session holds no route for the participant or holds one with isStale true;
\* its reason is no_route in the first case, time_stale when the route is
\* older than 5 minutes, whatever the drift, drift when only the drift makes
\* it stale, and none otherwise.
C36_CheckAgreesWithETAs ==
    (ret.op = "checkRouteStale" /\ getETAsResult(1).value.hasDestination) =>
        LET etas == getETAsResult(1).value.etas
            mine == {k \in 1..Len(etas) :
                       etas[k].participantId = ret.args.participantId}
            c == ret.res.value
        IN /\ c.needsCompute <=> (mine = {} \/ \E k \in mine : etas[k].isStale)
           /\ mine = {} => c.reason = "no_route"
           /\ \A k \in mine :
                c.reason = IF ret.at - etas[k].computedAt > 5 * 60 * 1000
                           THEN "time_stale"
                           ELSE IF etas[k].isStale THEN "drift" ELSE ""

\* checkRouteStale has answered time_stale for a route 10 minutes old whose
\* participant is 800 m from the route's origin, in a session with a
\* destination
C36_Witness ==
    /\ ret.op = "checkRouteStale"
    /\ ret.res.value.reason = "time_stale"
    /\ getETAsResult(1).value.hasDestination
    /\ \E i \in 1..Len(routes), e \in 1..Len(presence) :
         /\ routes[i].participantId = ret.args.participantId
         /\ presence[e].participantId = ret.args.participantId
         /\ ret.at - routes[i].computedAt = 10 * 60 * 1000
         /\ haversineDistance(routes[i].originLatitude, routes[i].originLongitude,
                              presence[e].latitude, presence[e].longitude) = 800

\* C38: an updateLocation that arrives less than 500 ms after the
\* participant's previous accepted update, the one that wrote the presence
\* row the participant has, is not accepted.
C38_UpdateThrottle ==
    [][ret'.op = "updateLocation" =>
        \A i \in 1..Len(participants), e \in 1..Len(presence) :
           (/\ participants[i].deviceId = ret'.args.deviceId
            /\ participants[i].sessionId = ret'.args.sessionId
            /\ presence[e].participantId = participants[i]._id
            /\ presence[e].heading # <<>>
            /\ presence[e].updatedAt = participants[i].lastSeenAt
            /\ now - presence[e].updatedAt < 500)
           => ret'.res.kind # "ok"
       ]_vars

\* C37: without a clearDeviceId in between, every getDeviceId on the device
\* returns the identifier that the getDeviceId before it returned, also when
\* calls overlap on first launch and after AsyncStorage has failed.
C37_StableDeviceId ==
    [][(ret.op = "getDeviceId" /\ ret'.op = "getDeviceId")
          => ret'.res.value = ret.res.value]_vars

====
